---------------------------- MODULE Spec2Model ----------------------------
(***************************************************************************)
(* A model of the rho interpreter's value representation and argument      *)
(* evaluation core:                                                        *)
(*   - PromiseData / Promise        (src/src/main/Promise.cpp)             *)
(*   - Argument / ArgList           (src/src/main/ArgList.cpp,             *)
(*                                   src/src/include/rho/Argument.hpp)     *)
(*   - DiscriminatedUnion           (src/src/include/rho/                  *)
(*                                   DiscriminatedUnion.hpp)               *)
(* Several specifications share the module (PromiseSpec, ArgListSpec,      *)
(* UnionSpec, ArgumentSpec, ...).  Each one drives the variables of its    *)
(* own component and leaves those of the others at their idle values.      *)
(***************************************************************************)
EXTENDS Integers, Sequences, FiniteSets, TLC

VARIABLES
    \* ---- PromiseData / Promise ----
    data,         \* every PromiseData instance (stack/inline ones and Promise::m_data)
    stack,        \* the evaluations in progress, innermost last
    fault,        \* "none", or "assert" once an assert() of Promise.cpp has failed
    nEval,        \* how many times the promise's expression has been evaluated
    nWarn,        \* how many "restarting interrupted promise evaluation" warnings
    last,         \* the outcome of the latest call of the promise interface
    first,        \* how the first evaluation of the expression ended, and its value
    prvalue_set,  \* whether SET_PRVALUE has been applied to the promise
    shared,       \* whether a copy / asPromise() happened before any evaluation
    \* ---- DiscriminatedUnion ----
    m_bits,       \* DiscriminatedUnion::m_value, as 64 bits
    test_bits,    \* the local test_value of isStorableDoubleValue()
    ulast,        \* the latest operation on the union and its arguments
    ufault,       \* "none", or "assert" once an assert() of the union has failed
    \* ---- ArgList ----
    args,         \* the Arguments of the ArgList, in order
    m_status,     \* ArgList::m_status: "RAW", "PROMISED" or "EVALUATED"
    dots,         \* the binding of '...' in env
    call,         \* the argument cells of the call expression
    alast,        \* the latest operation on the ArgList, its inputs and outcome
    afault,       \* "none", or "assert" once an assert() behind ArgList has failed
    \* ---- Argument ----
    arguments,    \* the Argument objects: the one constructed and its copies
    promises,     \* the Promise objects made by asPromise(): their m_data
    glast,        \* the latest operation on an Argument and its outcome
    gfault,       \* "none", or what stopped the program in Argument's code
    \* ---- Expression::invokeClosureImpl ----
    newframe,     \* the frame of the execution environment of the latest call
    flast,        \* the latest operation on the frame and its inputs
    \* ---- RObjectProxy ----
    r_bits,       \* RObjectProxy::m_value, as 64 bits
    rlast,        \* how the RObjectProxy was constructed
    \* ---- Vector ----
    storage,      \* the cells of the Vector's storage: capacity() of them
    m_size,       \* Vector::m_size
    m_is_small,   \* Vector::m_is_small
    model,        \* the std::vector the same operations are applied to
    vlast,        \* the latest operation on the Vector, its inputs and outcome
    vfault        \* "none", or what stopped the program in Vector's code

pvars == <<data, stack, fault, nEval, nWarn, last, first, prvalue_set, shared>>

uvars == <<m_bits, test_bits, ulast, ufault>>

avars == <<args, m_status, dots, call, alast, afault>>

gvars == <<arguments, promises, glast, gfault>>

\* the variables of the components other than the three first ones
fvars == <<newframe, flast>>

rvars == <<r_bits, rlast>>

vvars == <<storage, m_size, m_is_small, model, vlast, vfault>>

ovars == <<gvars, fvars, rvars, vvars>>

vars == <<pvars, uvars, avars, ovars>>

-----------------------------------------------------------------------------
(* Bounds of the model. *)

\* PromiseData instances in existence at once (the original, copies, one Promise).
MaxLoc == 3
\* Nesting depth of evaluations in progress.
MaxDepth == 2
\* Evaluations of the expression that may be started.
MaxEvals == 3
\* Distinct ordinary values an expression may evaluate to.
NumValues == 2
\* Length up to which merge() may grow an ArgList.
MaxArgs == 3
\* Argument objects in existence at once (the one constructed, its copies).
MaxArguments == 2
\* Promise objects asPromise() may create for them.
MaxPromises == 2
\* Operations applied to the Arguments in one behaviour.
MaxOps == 4
\* Values argument matching may bind a parameter to.
NumFrameValues == 2
\* Elements a Vector may grow to, and the values of its elements.
MaxVectorSize == 5
NumElements == 2
\* The longest range assigned to or inserted into a Vector.
MaxRange == 2
\* Operations applied to the Vector in one behaviour.
MaxVectorOps == 3
\* template parameter N of Vector: the elements stored in the object itself
N == 4

-----------------------------------------------------------------------------
(* References held by a GCEdge<> m_value. *)

NullRef == [k |-> "null", i |-> 0]
EnvRef == [k |-> "env", i |-> 0]
\* Symbol::unboundValue()
UnboundValue == [k |-> "unbound", i |-> 0]
ValRef(n) == [k |-> "val", i |-> n]
PromRef(p) == [k |-> "promise", i |-> p]

\* What Evaluator::evaluate() can return: ordinary values.  The unbound
\* sentinel is not an ordinary value: evaluating an unbound symbol raises
\* "object not found" instead of returning it.
Values == {ValRef(n) : n \in 1..NumValues}

Loc == 1..MaxLoc

FreeData ==
    [kind |-> "free", m_is_pointer_to_promise |-> FALSE,
     m_under_evaluation |-> FALSE, m_interrupted |-> FALSE,
     m_is_evaluated |-> FALSE, m_value |-> NullRef, m_valgen |-> "null"]

\* PromiseData::PromiseData(const RObject* valgen, Environment* env)
NewPromiseData(kind, valgen) ==
    [kind |-> kind, m_is_pointer_to_promise |-> FALSE,
     m_under_evaluation |-> FALSE, m_interrupted |-> FALSE,
     m_is_evaluated |-> FALSE, m_value |-> EnvRef, m_valgen |-> valgen]

\* The expressions a promise may hold, by what isMissingSymbol() asks of
\* them (prexpr->sexptype() == SYMSXP): a symbol, or any other expression.
Valgens == {"expr", "sym"}

\* PromiseData::PromiseData(Promise* value): only m_is_pointer_to_promise and
\* m_value are set.  The three other flags are left uninitialised; no code
\* path reads them while m_is_pointer_to_promise is true, so they are shown
\* as false.
PointerPromiseData(p) ==
    [kind |-> "data", m_is_pointer_to_promise |-> TRUE,
     m_under_evaluation |-> FALSE, m_interrupted |-> FALSE,
     m_is_evaluated |-> FALSE, m_value |-> PromRef(p), m_valgen |-> "null"]

\* PromiseData::operator=(const PromiseData& source), applied to d with
\* source.asPromise() = p: the flags other than m_is_pointer_to_promise are
\* not touched.
AssignPromise(d, p) ==
    [d EXCEPT !.m_value = PromRef(p), !.m_is_pointer_to_promise = TRUE,
              !.m_valgen = "null"]

\* getThis(): the PromiseData that carries the state of location l.
GetThis(l) ==
    IF data[l].m_is_pointer_to_promise /\ data[l].m_value.k = "promise"
    THEN data[l].m_value.i ELSE l

\* PromiseData::getValue()
GetValue(d) == IF d.m_is_evaluated THEN d.m_value ELSE UnboundValue

\* PromiseData::getEnvironment()
GetEnvironment(d) == IF d.m_is_evaluated THEN NullRef ELSE d.m_value

\* PromiseData::setEvaluatedValue(val), past its assertion.
SetEvaluatedValue(d, val) ==
    IF val = UnboundValue THEN d
    ELSE [d EXCEPT !.m_value = val, !.m_is_evaluated = TRUE]

NeedsForcing_Always(d) == TRUE

\* The test of PromiseData::evaluate() that decides whether to force.
NeedsForcing(d) == ~d.m_is_evaluated \/ d.m_value = UnboundValue

\* An evaluation of the expression held (now) by location x is in progress.
InProgress(x) == \E i \in 1..Len(stack) : GetThis(stack[i].this) = x

Live == {l \in Loc : data[l].kind # "free"}
FreeLocs == {l \in Loc : data[l].kind = "free"}
NewLoc == CHOOSE l \in FreeLocs : \A m \in FreeLocs : l <= m

\* A record of a call of the promise interface: the operation, its result,
\* the value returned, the location it was called on, the number of
\* evaluations of the expression it started, and the state of the promise
\* when it was called.
Call(op, res, val, loc, evals, inprog, intr, forced) ==
    [op |-> op, res |-> res, val |-> val, loc |-> loc, evals |-> evals,
     in_progress |-> inprog, interrupted |-> intr, forced |-> forced]

NoCall == Call("none", "none", NullRef, 0, 0, FALSE, FALSE, FALSE)

\* A record of a call of isMissingSymbol(): its result, the location it was
\* called on, the state of the promise when it was called, the expression
\* of the promise, and whether isMissingArgument() finds the promise's
\* symbol missing in the frame of the captured environment.
MissingCall(res, loc, inprog, d, missing) ==
    [op |-> "isMissingSymbol", res |-> res, val |-> NullRef, loc |-> loc,
     evals |-> 0, in_progress |-> inprog, interrupted |-> d.m_interrupted,
     forced |-> d.m_is_evaluated, valgen |-> d.m_valgen,
     missing |-> missing]

NoFirst == [how |-> "none", val |-> NullRef, loc |-> 0]


-----------------------------------------------------------------------------
(* PromiseData / Promise: the operations. *)

PromiseInit ==
    /\ \E kind \in {"data", "promise"}, valgen \in Valgens :
         data = [l \in Loc |-> IF l = 1 THEN NewPromiseData(kind, valgen)
                                ELSE FreeData]
    /\ stack = <<>>
    /\ fault = "none"
    /\ nEval = 0
    /\ nWarn = 0
    /\ last = NoCall
    /\ first = NoFirst
    /\ prvalue_set = FALSE
    /\ shared = FALSE

RaisesUnderEvaluation_Never(d) == FALSE

\* PromiseData::evaluate(): the branch that raises "promise already under
\* evaluation"; an interrupted promise takes the warning branch instead.
RaisesUnderEvaluation(d) == ~d.m_interrupted /\ d.m_under_evaluation

\* PromiseData::evaluate() on a promise that needs no forcing: getValue().
EvaluateCached(l) ==
    LET x == GetThis(l)
        d == data[x]
    IN  /\ ~NeedsForcing(d)
        /\ last' = Call("evaluate", "value", GetValue(d), l, 0,
                        InProgress(x), d.m_interrupted, TRUE)
        /\ UNCHANGED <<data, stack, fault, nEval, nWarn, first,
                       prvalue_set, shared, uvars, avars, ovars>>

\* PromiseData::evaluate() on a promise under evaluation: Rf_error().
EvaluateError(l) ==
    LET x == GetThis(l)
        d == data[x]
    IN  /\ NeedsForcing(d)
        /\ RaisesUnderEvaluation(d)
        /\ last' = Call("evaluate", "under_evaluation_error", NullRef, l, 0,
                        InProgress(x), d.m_interrupted, FALSE)
        /\ UNCHANGED <<data, stack, fault, nEval, nWarn, first,
                       prvalue_set, shared, uvars, avars, ovars>>

\* PromiseData::evaluate() up to the call of Evaluator::evaluate(): the
\* warning for an interrupted promise, m_under_evaluation = true, and the
\* evaluation of the expression starts.
EvaluateBegin(l) ==
    LET x == GetThis(l)
        d == data[x]
    IN  /\ NeedsForcing(d)
        /\ ~RaisesUnderEvaluation(d)
        /\ Len(stack) < MaxDepth
        /\ nEval < MaxEvals
        /\ data' = [data EXCEPT ![x] = [d EXCEPT !.m_interrupted = FALSE,
                                                 !.m_under_evaluation = TRUE]]
        /\ nWarn' = IF d.m_interrupted THEN nWarn + 1 ELSE nWarn
        /\ nEval' = nEval + 1
        /\ stack' = Append(stack, [op |-> "evaluate", this |-> x, via |-> l,
                                   n |-> nEval + 1,
                                   in_progress |-> InProgress(x),
                                   interrupted |-> d.m_interrupted])
        /\ last' = Call("evaluate", "began", NullRef, l, 1,
                        InProgress(x), d.m_interrupted, FALSE)
        /\ first' = IF nEval = 0 THEN [how |-> "running", val |-> NullRef,
                                       loc |-> l]
                    ELSE first
        /\ UNCHANGED <<fault, prvalue_set, shared, uvars, avars, ovars>>

\* RObject* PromiseData::evaluate(), called on location l.
Evaluate(l) ==
    /\ fault = "none"
    /\ l \in Live
    /\ \/ EvaluateCached(l)
       \/ EvaluateError(l)
       \/ EvaluateBegin(l)

Top == stack[Len(stack)]
Pop == SubSeq(stack, 1, Len(stack) - 1)

\* The innermost evaluation returns val: setEvaluatedValue(val),
\* m_under_evaluation = false, assert, return getValue().  The assertion of
\* setEvaluatedValue() fails when this PromiseData was turned into a pointer
\* to a Promise while its expression was being evaluated.
EvaluateReturn(val) ==
    /\ fault = "none"
    /\ stack # <<>>
    /\ Top.op = "evaluate"
    /\ LET f == Top
           d == data[f.this]
           done == [SetEvaluatedValue(d, val)
                        EXCEPT !.m_under_evaluation = FALSE]
       IN  IF d.m_is_pointer_to_promise
           THEN /\ fault' = "assert"
                /\ last' = Call("evaluate", "abort", NullRef, f.via, 0,
                                f.in_progress, f.interrupted, FALSE)
                /\ first' = IF f.n = 1 THEN [first EXCEPT !.how = "abort"]
                            ELSE first
                /\ UNCHANGED <<data, stack>>
           ELSE /\ data' = [data EXCEPT ![f.this] = done]
                /\ stack' = Pop
                /\ last' = Call("evaluate", "value", GetValue(done), f.via, 0,
                                f.in_progress, f.interrupted, FALSE)
                /\ first' = IF f.n = 1
                            THEN [first EXCEPT !.how = "normal",
                                               !.val = GetValue(done)]
                            ELSE first
                /\ UNCHANGED fault
    /\ UNCHANGED <<nEval, nWarn, prvalue_set, shared, uvars, avars, ovars>>

\* The innermost evaluation throws (an error of the expression itself, or the
\* under-evaluation error of a nested call that the expression does not
\* catch): catch (...) { m_interrupted = true; throw; }
EvaluateThrow ==
    /\ fault = "none"
    /\ stack # <<>>
    /\ Top.op = "evaluate"
    /\ LET f == Top
       IN  /\ data' = [data EXCEPT ![f.this].m_interrupted = TRUE]
           /\ stack' = Pop
           /\ last' = Call("evaluate", "exception", NullRef, f.via, 0,
                           f.in_progress, f.interrupted, FALSE)
           /\ first' = IF f.n = 1 THEN [first EXCEPT !.how = "threw"]
                       ELSE first
    /\ UNCHANGED <<fault, nEval, nWarn, prvalue_set, shared, uvars, avars, ovars>>

\* The effect of asPromise() on the store: an inline PromiseData is moved
\* into a new Promise p and becomes a pointer to it.
Materialise(store, l, p) ==
    IF store[l].m_is_pointer_to_promise THEN store
    ELSE [store EXCEPT ![p] = [store[l] EXCEPT !.kind = "promise"],
                       ![l] = AssignPromise(store[l], p)]

\* Promise* PromiseData::asPromise() const
AsPromise(l) ==
    /\ fault = "none"
    /\ l \in Live
    /\ data[l].kind = "data"
    /\ data[l].m_is_pointer_to_promise \/ FreeLocs # {}
    /\ data' = Materialise(data, l, NewLoc)
    /\ last' = Call("asPromise", "value", data'[l].m_value, l, 0,
                    InProgress(GetThis(l)), FALSE, FALSE)
    /\ shared' = (shared \/ nEval = 0)
    /\ UNCHANGED <<stack, fault, nEval, nWarn, first, prvalue_set, uvars, avars, ovars>>

CopyConstruct_Memberwise(source, p) == source

\* PromiseData::PromiseData(const PromiseData& source), given the source as
\* it was before the call and p = source.asPromise().
CopyConstruct(source, p) == PointerPromiseData(p)

\* Copy construction of a PromiseData from location l (the copy of an
\* Argument copies its m_promise_data this way).
Copy(l) ==
    /\ fault = "none"
    /\ l \in Live
    /\ data[l].kind = "data"
    /\ Cardinality(FreeLocs) >=
           (IF data[l].m_is_pointer_to_promise THEN 1 ELSE 2)
    /\ LET after == Materialise(data, l, NewLoc)
           c == CHOOSE m \in Loc : /\ after[m].kind = "free"
                                   /\ \A k \in Loc : after[k].kind = "free"
                                                     => m <= k
       IN  /\ data' = [after EXCEPT
                          ![c] = CopyConstruct(data[l], after[l].m_value.i)]
           /\ last' = Call("copy", "value", after[l].m_value, c, 0,
                           InProgress(GetThis(l)), FALSE, FALSE)
    /\ shared' = (shared \/ nEval = 0)
    /\ UNCHANGED <<stack, fault, nEval, nWarn, first, prvalue_set, uvars, avars, ovars>>

\* PromiseData::PromiseData(Promise* value): a PromiseData referring to an
\* existing Promise p.
PointTo(p) ==
    /\ fault = "none"
    /\ p \in Live
    /\ data[p].kind = "promise"
    /\ FreeLocs # {}
    /\ data' = [data EXCEPT ![NewLoc] = PointerPromiseData(p)]
    /\ last' = Call("pointTo", "value", PromRef(p), NewLoc, 0,
                    InProgress(p), FALSE, FALSE)
    /\ shared' = (shared \/ nEval = 0)
    /\ UNCHANGED <<stack, fault, nEval, nWarn, first, prvalue_set, uvars, avars, ovars>>

\* SET_PRVALUE(x, v): Promise::setEvaluatedValue(v) on the Promise at p.
SetPRValue(p, v) ==
    /\ fault = "none"
    /\ p \in Live
    /\ data[p].kind = "promise"
    /\ IF data[p].m_is_pointer_to_promise
       THEN /\ fault' = "assert"
            /\ UNCHANGED data
       ELSE /\ data' = [data EXCEPT ![p] = SetEvaluatedValue(data[p], v)]
            /\ UNCHANGED fault
    /\ prvalue_set' = TRUE
    /\ last' = Call("SET_PRVALUE", "none", v, p, 0,
                    InProgress(p), data[p].m_interrupted, data[p].m_is_evaluated)
    /\ UNCHANGED <<stack, nEval, nWarn, first, shared, uvars, avars, ovars>>

\* The test of isMissingSymbol() that decides whether the promise's
\* expression is looked at: the promise is unforced and has an expression.
LooksAtExpression(d) ==
    (~d.m_is_evaluated \/ d.m_value = UnboundValue) /\ d.m_valgen # "null"

\* bool PromiseData::isMissingSymbol() const, called on location l, up to
\* its return or to the call of isMissingArgument().  missing is what
\* isMissingArgument(promsym, getEnvironment()->frame()) answers.
IsMissingSymbol(l, missing) ==
    /\ fault = "none"
    /\ l \in Live
    /\ LET x == GetThis(l)
           d == data[x]
       IN  IF ~(LooksAtExpression(d) /\ d.m_valgen = "sym")
           THEN /\ last' = MissingCall("false", l, InProgress(x), d, missing)
                /\ UNCHANGED <<data, stack>>
           ELSE IF d.m_under_evaluation
           THEN /\ last' = MissingCall("true", l, InProgress(x), d, missing)
                /\ UNCHANGED <<data, stack>>
           ELSE /\ Len(stack) < MaxDepth
                /\ data' = [data EXCEPT ![x].m_under_evaluation = TRUE]
                /\ stack' = Append(stack,
                                [op |-> "isMissingSymbol", this |-> x,
                                 via |-> l, n |-> 0,
                                 in_progress |-> InProgress(x),
                                 interrupted |-> d.m_interrupted,
                                 missing |-> missing])
                /\ last' = MissingCall("began", l, InProgress(x), d, missing)
    /\ UNCHANGED <<fault, nEval, nWarn, first, prvalue_set, shared,
                   uvars, avars, ovars>>

\* isMissingArgument() returns to the innermost isMissingSymbol():
\* m_under_evaluation = false, assert(!m_is_pointer_to_promise), return ans.
IsMissingReturn ==
    /\ fault = "none"
    /\ stack # <<>>
    /\ Top.op = "isMissingSymbol"
    /\ LET f == Top
           d == data[f.this]
       IN  /\ data' = [data EXCEPT ![f.this].m_under_evaluation = FALSE]
           /\ IF d.m_is_pointer_to_promise
              THEN /\ fault' = "assert"
                   /\ last' = MissingCall("abort", f.via, f.in_progress, d,
                                          f.missing)
                   /\ UNCHANGED stack
              ELSE /\ stack' = Pop
                   /\ last' = MissingCall(IF f.missing THEN "true" ELSE "false",
                                          f.via, f.in_progress, d, f.missing)
                   /\ UNCHANGED fault
    /\ UNCHANGED <<nEval, nWarn, first, prvalue_set, shared, uvars, avars, ovars>>

\* isMissingArgument() throws:
\* catch (...) { m_under_evaluation = false; throw; }
IsMissingThrow ==
    /\ fault = "none"
    /\ stack # <<>>
    /\ Top.op = "isMissingSymbol"
    /\ LET f == Top
       IN  /\ data' = [data EXCEPT ![f.this].m_under_evaluation = FALSE]
           /\ stack' = Pop
           /\ last' = MissingCall("exception", f.via, f.in_progress,
                                  data[f.this], f.missing)
    /\ UNCHANGED <<fault, nEval, nWarn, first, prvalue_set, shared,
                   uvars, avars, ovars>>

PromiseNext ==
    \/ \E l \in Loc : Evaluate(l)
    \/ \E v \in Values : EvaluateReturn(v)
    \/ EvaluateThrow
    \/ \E l \in Loc : AsPromise(l)
    \/ \E l \in Loc : Copy(l)
    \/ \E p \in Loc : PointTo(p)
    \/ \E p \in Loc, v \in Values \cup {UnboundValue} : SetPRValue(p, v)
    \/ \E l \in Loc, missing \in BOOLEAN : IsMissingSymbol(l, missing)
    \/ IsMissingReturn
    \/ IsMissingThrow


-----------------------------------------------------------------------------
(* DiscriminatedUnion: 64-bit words.  A word is a function from the bit     *)
(* positions 0 (least significant) .. 63 to {0, 1}.                         *)

BitPos == 0..63

\* bit i of the 16-bit number n
LimbBit(n, i) == (n \div (2 ^ i)) % 2

\* the word whose four 16-bit limbs are a (bits 48..63), b, c and d (bits 0..15)
W4(a, b, c, d) ==
    [i \in BitPos |-> IF i < 16 THEN LimbBit(d, i)
                      ELSE IF i < 32 THEN LimbBit(c, i - 16)
                      ELSE IF i < 48 THEN LimbBit(b, i - 32)
                      ELSE LimbBit(a, i - 48)]

ZeroWord == [i \in BitPos |-> 0]

BitOr(x, y) == [i \in BitPos |-> IF x[i] = 1 \/ y[i] = 1 THEN 1 ELSE 0]
BitAnd(x, y) == [i \in BitPos |-> IF x[i] = 1 /\ y[i] = 1 THEN 1 ELSE 0]
BitXor(x, y) == [i \in BitPos |-> IF x[i] # y[i] THEN 1 ELSE 0]
BitNot(x) == [i \in BitPos |-> 1 - x[i]]
\* x << k and x >> k on uint64_t
Shl(x, k) == [i \in BitPos |-> IF i >= k THEN x[i - k] ELSE 0]
Shr(x, k) == [i \in BitPos |-> IF i + k <= 63 THEN x[i + k] ELSE 0]

\* bit i (0..31) of the 32-bit int v in two's complement
IntBit(v, i) ==
    IF i = 31 THEN (IF v < 0 THEN 1 ELSE 0)
    ELSE IF v >= 0 THEN (v \div (2 ^ i)) % 2
    ELSE (((v + 2147483647) + 1) \div (2 ^ i)) % 2

\* The conversion of an int operand to uint64_t in `int | uint64_t`: the
\* usual arithmetic conversions sign-extend it.
SignExtend(v) ==
    [i \in BitPos |-> IF i <= 31 THEN IntBit(v, i)
                      ELSE IF v < 0 THEN 1 ELSE 0]

\* static_cast<uint64_t>(index) for a uint16_t index
FromU16(t) == W4(0, 0, 0, t)

RECURSIVE SumBits(_, _)
SumBits(w, i) == IF i < 0 THEN 0 ELSE w[i] * (2 ^ i) + SumBits(w, i - 1)

\* getLower32Bits(): the int stored in the low 32 bits (little endian build)
GetLower32Bits(w) ==
    IF w[31] = 1 THEN (SumBits(w, 30) - 2147483647) - 1 ELSE SumBits(w, 30)

\* m_value.bits >> 59 as an index 0..31
Top5(w) == w[59] + 2 * w[60] + 4 * w[61] + 8 * w[62] + 16 * w[63]

s_pointer_1_null_tag == Shl(W4(0, 0, 0, 30), 59)
s_pointer_2_tag == Shl(W4(0, 0, 0, 12), 59)
s_integer_tag == Shl(W4(0, 0, 0, 14), 59)
s_pointer_1_null_value == BitXor(s_pointer_1_null_tag, Shr(s_pointer_1_null_tag, 60))
s_pointer_2_null_value == BitXor(s_pointer_2_tag, Shr(s_pointer_2_tag, 60))

\* s_storage_type[32] with the patterns x110x and x1110 given to Double
s_storage_type_LargeAreDoubles ==
    << "POINTER_1", "POINTER_1", "POINTER_1", "POINTER_1",
       "DOUBLE", "DOUBLE", "DOUBLE", "DOUBLE",
       "DOUBLE", "DOUBLE", "DOUBLE", "DOUBLE",
       "DOUBLE", "DOUBLE", "DOUBLE", "DOUBLE",
       "POINTER_1", "POINTER_1", "POINTER_1", "POINTER_1",
       "DOUBLE", "DOUBLE", "DOUBLE", "DOUBLE",
       "DOUBLE", "DOUBLE", "DOUBLE", "DOUBLE",
       "DOUBLE", "DOUBLE", "DOUBLE", "DOUBLE" >>

\* static constexpr StorageType s_storage_type[32]
s_storage_type ==
    << "POINTER_1", "POINTER_1", "POINTER_1", "POINTER_1",
       "DOUBLE", "DOUBLE", "DOUBLE", "DOUBLE",
       "DOUBLE", "DOUBLE", "DOUBLE", "DOUBLE",
       "POINTER_2", "POINTER_2", "INTEGER", "DOUBLE",
       "POINTER_1", "POINTER_1", "POINTER_1", "POINTER_1",
       "DOUBLE", "DOUBLE", "DOUBLE", "DOUBLE",
       "DOUBLE", "DOUBLE", "DOUBLE", "DOUBLE",
       "POINTER_2", "POINTER_2", "POINTER_1_NULL", "DOUBLE" >>

isZeroDouble(w) == w = ZeroWord

\* getStorageType() without the test of isZeroDouble()
getStorageType_NoZeroCheck(w) == s_storage_type[Top5(w) + 1]

getStorageType(w) ==
    IF isZeroDouble(w) THEN "DOUBLE" ELSE s_storage_type[Top5(w) + 1]

isPointer1Null(w) == getStorageType(w) = "POINTER_1_NULL"

isPointer1_NonNullOnly(w) == getStorageType(w) = "POINTER_1"

isPointer1(w) == getStorageType(w) = "POINTER_1" \/ isPointer1Null(w)
isNonNullPointer1(w) == getStorageType(w) = "POINTER_1"
isPointer2(w) == getStorageType(w) = "POINTER_2"
isNonNullPointer2(w) ==
    getStorageType(w) = "POINTER_2" /\ w # s_pointer_2_null_value
isEitherPointer(w) == isPointer1(w) \/ isPointer2(w)
isDouble(w) == getStorageType(w) = "DOUBLE"

makeIntegerTag(index) == BitOr(s_integer_tag, Shl(FromU16(index), 32))

\* the constant 0xffffffff00000000
UpperMask == W4(65535, 65535, 0, 0)

isInteger(w, tag) == BitAnd(w, UpperMask) = makeIntegerTag(tag)

\* the word setInteger(tag, value) stores
setInteger(tag, value) == BitOr(SignExtend(value), makeIntegerTag(tag))

getInteger(w) == GetLower32Bits(w)

\* the word setPointer1(node, flag) stores
setPointer1(node, flag) ==
    IF node = ZeroWord /\ ~flag THEN s_pointer_1_null_value
    ELSE LET bits == BitOr(BitOr(node,
                                 BitAnd(Shr(node, 60), W4(0, 0, 0, 14))),
                           W4(0, 0, 0, IF flag THEN 1 ELSE 0))
         IN  BitXor(bits, Shl(bits, 60))

\* the word setPointer2(node) stores
setPointer2(node) ==
    LET bits == BitOr(node, Shr(BitXor(node, s_pointer_2_tag), 60))
    IN  BitXor(bits, Shl(bits, 60))

\* recoverPointer(): (bits & ~0x7) ^ (bits << 60)
recoverPointer(w) ==
    BitXor(BitAnd(w, BitNot(W4(0, 0, 0, 7))), Shl(w, 60))

\* getPointer1(): the pair (pointer, flag)
getPointer1(w) ==
    IF isPointer1Null(w) THEN <<ZeroWord, FALSE>>
    ELSE <<recoverPointer(w), w[0] = 1>>

getPointer2(w) == recoverPointer(w)

getEitherPointer(w) ==
    IF isPointer1Null(w) THEN ZeroWord ELSE recoverPointer(w)

setDouble_QuietNaN(d) ==
    IF Top5(d) % 16 = 15 /\ d[51] = 0 THEN [d EXCEPT ![51] = 1] ELSE d

\* the word setDouble(value) stores: the double in its native format
setDouble(d) == d

getDouble(w) == w

\* isStorableDoubleValue(d), given the bits of d
isStorableDoubleValue(d) == isDouble(d)

-----------------------------------------------------------------------------
(* The inputs the operations of the union are exercised with. *)

\* Doubles, as IEEE-754 bit patterns.
PosZero == ZeroWord
NegZero == W4(32768, 0, 0, 0)
PosInf == W4(32752, 0, 0, 0)
NegInf == W4(65520, 0, 0, 0)
QuietNaN == W4(32760, 0, 0, 0)
\* NaNs with payloads: quiet with payload, negative quiet, signalling
NaNPayloads == {W4(32760, 0, 0, 1), W4(65528, 4660, 0, 0), W4(32752, 0, 0, 1)}
\* std::numeric_limits<double>::min() and max()
MinNormal == W4(16, 0, 0, 0)
MaxNormal == W4(32751, 65535, 65535, 65535)
\* sqrt(min()) = 2^-511
SqrtMinNormal == W4(8192, 0, 0, 0)
Negate(d) == [d EXCEPT ![63] = 1 - d[63]]

DoubleInputs ==
    {PosZero, NegZero, PosInf, NegInf, QuietNaN,
     MinNormal, Negate(MinNormal), SqrtMinNormal, Negate(SqrtMinNormal),
     MaxNormal, Negate(MaxNormal),
     W4(16368, 0, 0, 0),                 \* 1.0
     W4(16386, 26214, 26214, 26214),     \* 2.3
     W4(0, 0, 0, 1),                     \* the smallest subnormal
     W4(24576, 0, 0, 0),                 \* 2^513
     W4(28672, 0, 0, 0),                 \* 2^769
     W4(28673, 0, 0, 0),                 \* just above 2^769
     W4(61440, 0, 0, 0),                 \* -2^769
     W4(30720, 0, 0, 0),                 \* 2^897
     W4(8191, 65535, 65535, 65535),      \* just below 2^-511
     W4(24575, 65535, 65535, 65535),     \* just below 2^513
     W4(30719, 65535, 65535, 65535)}     \* just below 2^897
      \cup NaNPayloads

\* 16-bit tags and 32-bit values for setInteger
TagInputs == {0, 35, 36, 65535}
IntInputs == {0, 1, 78, -1, -78, 2147483647, -2147483647 - 1}

\* 8-byte aligned addresses, with several settings of the upper bits
PointerInputs ==
    {ZeroWord,
     W4(0, 0, 0, 8), W4(0, 0, 4096, 0), W4(0, 32767, 65535, 65528),
     W4(4096, 0, 0, 16), W4(2048, 0, 0, 8), W4(24576, 0, 0, 64),
     W4(32768, 0, 0, 8), W4(32768, 0, 0, 16), W4(65535, 32768, 0, 8),
     W4(65535, 65535, 65535, 65520)}

-----------------------------------------------------------------------------
(* DiscriminatedUnion: the state and the operations. *)

UOp(op, tag, ival, word, flag) ==
    [op |-> op, tag |-> tag, ival |-> ival, word |-> word, flag |-> flag]

\* A DiscriminatedUnion has no constructor: m_value starts indeterminate
\* (ulast.op = "none" until a set operation has stored a word).
UnionInit ==
    /\ m_bits \in DoubleInputs \cup PointerInputs
    /\ test_bits = ZeroWord
    /\ ulast = UOp("none", 0, 0, ZeroWord, FALSE)
    /\ ufault = "none"

\* void setInteger(uint16_t tag, int value)
SetInteger(tag, value) ==
    /\ ufault = "none"
    /\ m_bits' = setInteger(tag, value)
    /\ ulast' = UOp("setInteger", tag, value, ZeroWord, FALSE)
    /\ UNCHANGED <<test_bits, ufault, pvars, avars, ovars>>

\* int& getInteger(uint16_t tag), and a store through the reference
WriteInteger(tag, value) ==
    /\ ufault = "none"
    /\ ulast.op # "none"
    /\ isInteger(m_bits, tag)
    /\ m_bits' = [i \in BitPos |-> IF i <= 31 THEN IntBit(value, i)
                                   ELSE m_bits[i]]
    /\ ulast' = UOp("writeInteger", tag, value, ZeroWord, FALSE)
    /\ UNCHANGED <<test_bits, ufault, pvars, avars, ovars>>

\* void setDouble(double value), with its assertion
SetDouble(d) ==
    /\ ufault = "none"
    /\ IF isStorableDoubleValue(d)
       THEN /\ m_bits' = setDouble(d)
            /\ ulast' = UOp("setDouble", 0, 0, d, FALSE)
            /\ UNCHANGED ufault
       ELSE /\ ufault' = "assert"
            /\ UNCHANGED <<m_bits, ulast>>
    /\ UNCHANGED <<test_bits, pvars, avars, ovars>>

\* void setPointer1(void* node, bool flag)
SetPointer1(node, flag) ==
    /\ ufault = "none"
    /\ m_bits' = setPointer1(node, flag)
    /\ ulast' = UOp("setPointer1", 0, 0, node, flag)
    /\ UNCHANGED <<test_bits, ufault, pvars, avars, ovars>>

\* void setPointer2(void* node)
SetPointer2(node) ==
    /\ ufault = "none"
    /\ m_bits' = setPointer2(node)
    /\ ulast' = UOp("setPointer2", 0, 0, node, FALSE)
    /\ UNCHANGED <<test_bits, ufault, pvars, avars, ovars>>

\* static bool isStorableDoubleValue(double d): the local DiscriminatedUnion
\* test_value holds the bits of d while isDouble() is asked of it.
IsStorableDoubleValue(d) ==
    /\ ufault = "none"
    /\ test_bits' = d
    /\ UNCHANGED <<m_bits, ulast, ufault, pvars, avars, ovars>>

UnionNext ==
    \/ \E t \in TagInputs, v \in IntInputs : SetInteger(t, v)
    \/ \E t \in TagInputs, v \in IntInputs : WriteInteger(t, v)
    \/ \E d \in DoubleInputs : SetDouble(d)
    \/ \E n \in PointerInputs, f \in BOOLEAN : SetPointer1(n, f)
    \/ \E n \in PointerInputs : SetPointer2(n)
    \/ \E d \in DoubleInputs : IsStorableDoubleValue(d)

-----------------------------------------------------------------------------
(* Argument and ArgList: the R objects an argument list holds. *)

\* Symbol::missingArgument()
MissingArgument == [k |-> "sym", i |-> 0]
\* DotsSymbol, the '...' placeholder
DotsSymbol == [k |-> "sym", i |-> 1]
\* a symbol bound to a value in env
BoundSymbol == [k |-> "sym", i |-> 2]
\* a symbol naming a formal argument that is missing in env's frame
MissingSymbol == [k |-> "sym", i |-> 3]
\* a symbol without binding: evaluating it raises "object not found"
UnboundSymbol == [k |-> "sym", i |-> 4]
\* a null tag
NoTag == "null"
\* the call quote(...), an expression whose value is the symbol '...'
QuotedDots == [k |-> "lang", i |-> 0]

\* The state of a PromiseData held by an Argument (inline or by pointer):
\* the expression, whether it is evaluated, and its value or environment.
PData(valgen, evaluated, value) ==
    [m_valgen |-> valgen, m_is_evaluated |-> evaluated, m_value |-> value]

\* PromiseData::detachReferents()
DetachReferents(pd) == [pd EXCEPT !.m_valgen = NullRef, !.m_value = NullRef]

\* A Promise object made by PromiseData::asPromise(), with the data it took.
PromiseObject(pd) == [k |-> "promise", i |-> 0, d |-> pd]

\* Argument::Argument(tag, value): m_promise_data(nullptr)
Argument(tag, value) ==
    [m_tag |-> tag, m_is_promise_data |-> FALSE, m_value |-> value,
     m_promise_data |-> PData(NullRef, FALSE, NullRef)]

\* Argument::boxPromise(), applied by value() when m_is_promise_data
BoxPromise(arg) ==
    IF arg.m_is_promise_data
    THEN [arg EXCEPT !.m_value = PromiseObject(arg.m_promise_data),
                     !.m_promise_data = DetachReferents(arg.m_promise_data),
                     !.m_is_promise_data = FALSE]
    ELSE arg

\* Argument::value(): what the caller gets (the argument becomes BoxPromise(arg))
Value(arg) == BoxPromise(arg).m_value

\* Argument::setValue(value)
SetValue(arg, value) ==
    [arg EXCEPT !.m_value = value,
                !.m_promise_data = IF arg.m_is_promise_data
                                   THEN DetachReferents(arg.m_promise_data)
                                   ELSE arg.m_promise_data,
                !.m_is_promise_data = FALSE]

\* Argument::setTag(tag)
SetTag(arg, tag) == [arg EXCEPT !.m_tag = tag]

WrapInPromise_Forced(arg) ==
    [arg EXCEPT !.m_promise_data = PData(arg.m_value, TRUE, arg.m_value),
                !.m_is_promise_data = TRUE,
                !.m_value = NullRef]

\* Argument::wrapInPromise(env), past its assertion
WrapInPromise(arg) ==
    [arg EXCEPT !.m_promise_data = PData(arg.m_value, FALSE, EnvRef),
                !.m_is_promise_data = TRUE,
                !.m_value = NullRef]

\* Argument::wrapInEvaluatedPromise(value), past its assertion
WrapInEvaluatedPromise(arg, value) ==
    [arg EXCEPT !.m_promise_data = PData(arg.m_value, TRUE, value),
                !.m_is_promise_data = TRUE,
                !.m_value = NullRef]

\* What the move constructor Argument(Argument&&) = default leaves behind:
\* the tag and the flag are copied; the GCEdge either keeps its pointer or
\* is nulled, depending on GCEdge's move constructor.
MovedFrom(arg, nulled) ==
    IF nulled THEN [arg EXCEPT !.m_value = NullRef] ELSE arg

\* ---- the collaborators of ArgList.cpp ----

\* isMissingArgument(sym, env->frame())
IsMissingArgument(sym) == sym = MissingSymbol

\* The outcome of a step: a value or an error, and the expressions whose
\* evaluation it started.
Outcome(err, val, ev) == [err |-> err, val |-> val, ev |-> ev]

\* Evaluator::evaluate(object, env): constants and null evaluate to
\* themselves, a bound symbol to its value, a promise to its (forced) value,
\* the call quote(...) to the symbol it quotes; every other symbol raises an
\* error.
RECURSIVE EvaluatorEvaluate(_)
EvaluatorEvaluate(v) ==
    CASE v.k = "promise" ->
            IF v.d.m_is_evaluated THEN Outcome("none", v.d.m_value, <<>>)
            ELSE EvaluatorEvaluate(v.d.m_valgen)
      [] v.k = "sym" ->
            IF v = BoundSymbol THEN Outcome("none", ValRef(v.i + 10), <<v>>)
            ELSE Outcome("evaluation error", NullRef, <<v>>)
      [] v.k = "lang" -> Outcome("none", DotsSymbol, <<v>>)
      [] OTHER -> Outcome("none", v, <<v>>)

EvaluateSingleArgument_KeepEvaluates(v, allow_missing) ==
    IF v.k = "sym" /\ v = MissingArgument /\ allow_missing # "Keep"
    THEN Outcome("argument is empty", NullRef, <<>>)
    ELSE EvaluatorEvaluate(v)

\* ArgList::evaluateSingleArgument(arg, env, allow_missing, arg_number)
EvaluateSingleArgument(v, allow_missing) ==
    IF v.k = "sym" /\ v = MissingArgument
    THEN IF allow_missing = "Keep"
         THEN Outcome("none", MissingArgument, <<>>)
         ELSE Outcome("argument is empty", NullRef, <<>>)
    ELSE IF v.k = "sym" /\ allow_missing = "Keep" /\ IsMissingArgument(v)
    THEN Outcome("none", MissingArgument, <<>>)
    ELSE EvaluatorEvaluate(v)

\* ---- ArgList::transform ----

\* F applied to the value of v, with v computed once
Bind(v, F(_)) == CHOOSE y \in {F(x) : x \in {v}} : TRUE

\* A binding of '...' in env: none, a null pointer, Symbol::missingArgument(),
\* an object that is no DottedArgs, or a DottedArgs list of (tag, car) cells.
Binding(k, cells) == [k |-> k, cells |-> cells]
Cell(tag, car) == [tag |-> tag, car |-> car]

getDottedArgs_Reversed(b) ==
    IF b.k = "dots"
    THEN [err |-> "none",
          cells |-> [j \in 1..Len(b.cells) |-> b.cells[Len(b.cells) + 1 - j]]]
    ELSE IF b.k \in {"null", "missing"} THEN [err |-> "none", cells |-> <<>>]
    ELSE [err |-> "'...' used in an incorrect context", cells |-> <<>>]

getDottedArgs_NullKeepsSlot(b) ==
    IF b.k = "dots" THEN [err |-> "none", cells |-> b.cells]
    ELSE [err |-> "none", cells |-> <<Cell(NoTag, DotsSymbol)>>]

\* static DottedArgs* getDottedArgs(Environment* env): an error, or the
\* cells to splice in (none for a null result)
getDottedArgs(b) ==
    CASE b.k = "unbound" -> [err |-> "'...' used in an incorrect context", cells |-> <<>>]
      [] b.k \in {"null", "missing"} -> [err |-> "none", cells |-> <<>>]
      [] b.k = "dots" -> [err |-> "none", cells |-> b.cells]
      [] OTHER -> [err |-> "'...' used in an incorrect context", cells |-> <<>>]

\* ArgList::has3Dots()
has3Dots(list) == \E i \in 1..Len(list) : Value(list[i]) = DotsSymbol

\* ArgList::hasTags()
hasTags(list) == \E i \in 1..Len(list) : list[i].m_tag # NoTag

\* The per-element function transform() is called with.  ctx holds what the
\* lambda captures (allow_missing, values) and the two choices the build
\* makes (oob: what indexing one past the end of values does; nulled: what a
\* moved-from GCEdge holds).
Fun(mode, ctx, arg, arg_number) ==
    LET b == BoxPromise(arg) IN
    CASE mode = "evaluate" ->
            LET r == EvaluateSingleArgument(b.m_value, ctx.allow_missing) IN
            [arg |-> IF r.err = "none" THEN SetValue(b, r.val) ELSE b,
             err |-> r.err, ev |-> r.ev]
      [] mode = "evaluateObject" ->  \* arg ? arg->evaluate(env) : nullptr
            LET r == EvaluatorEvaluate(b.m_value) IN
            [arg |-> IF r.err = "none" THEN SetValue(b, r.val) ELSE b,
             err |-> r.err, ev |-> r.ev]
      [] mode = "wrapInPromises" ->
            [arg |-> IF b.m_value # MissingArgument THEN WrapInPromise(b) ELSE b,
             err |-> "none", ev |-> <<>>]
      [] OTHER ->  \* wrapInPromises of an EVALUATED list, on raw_args
            IF arg_number - 1 > Len(ctx.values)
            THEN [arg |-> arg, err |-> "dispatch error", ev |-> <<>>]
            ELSE IF arg_number - 1 = Len(ctx.values)
            THEN IF ctx.oob = "assert"
                 THEN [arg |-> arg, err |-> "assert", ev |-> <<>>]
                 ELSE [arg |-> WrapInEvaluatedPromise(arg, NullRef),
                       err |-> "none", ev |-> <<>>]
            ELSE [arg |-> WrapInEvaluatedPromise(arg, Value(ctx.values[arg_number])),
                  err |-> "none", ev |-> <<>>]

\* The elements transform() visits: for the element at position src its
\* (moved) Argument, for a '...' the Arguments made of the DottedArgs cells,
\* or the error getDottedArgs() raises when the loop reaches it.
Item(arg, src, err) == [arg |-> arg, src |-> src, err |-> err]

RECURSIVE Expanded(_, _, _)
Expanded(list, b, i) ==
    IF i > Len(list) THEN <<>>
    ELSE LET g == getDottedArgs(b)
             here == IF Value(list[i]) # DotsSymbol
                     THEN <<Item(BoxPromise(list[i]), i, "none")>>
                     ELSE IF g.err # "none"
                     THEN <<Item(list[i], 0, g.err)>>
                     ELSE [j \in 1..Len(g.cells) |->
                               Item(Argument(g.cells[j].tag, g.cells[j].car), 0, "none")]
         IN here \o Expanded(list, b, i + 1)

InPlace_Reversed(list) ==
    [i \in 1..Len(list) |-> Item(list[Len(list) + 1 - i], Len(list) + 1 - i, "none")]

\* the elements transform() visits when it works in place
InPlace(list) == [i \in 1..Len(list) |-> Item(list[i], i, "none")]

\* The loop of transform(): fun is applied to the items in order, numbered
\* from 1, until one raises.  upto is the number of items fun was called on.
RECURSIVE Process(_, _, _, _, _, _)
Process(mode, ctx, items, j, out, evs) ==
    IF j > Len(items)
    THEN [args |-> out, err |-> "none", at |-> 0, ev |-> evs, upto |-> j - 1]
    ELSE IF items[j].err # "none"
    THEN [args |-> out, err |-> items[j].err, at |-> j, ev |-> evs, upto |-> j - 1]
    ELSE Bind(Fun(mode, ctx, items[j].arg, j),
              LAMBDA r :
                IF r.err # "none"
                THEN [args |-> Append(out, r.arg), err |-> r.err, at |-> j,
                      ev |-> evs \o r.ev, upto |-> j]
                ELSE Process(mode, ctx, items, j + 1, Append(out, r.arg),
                             evs \o r.ev))

\* template<typename Function> void ArgList::transform(env, fun): the list
\* afterwards (on an error: the list as the exception leaves it), the error,
\* the argument number it was raised at and the evaluations started.
transform(mode, ctx, list, status, b) ==
    IF status # "RAW" \/ ~has3Dots(list)
    THEN Bind(Process(mode, ctx, InPlace(list), 1, <<>>, <<>>),
              LAMBDA r :
                [r EXCEPT !.args = r.args \o SubSeq(list, Len(r.args) + 1, Len(list))])
    ELSE Bind(Expanded(list, b, 1),
              LAMBDA items :
                Bind(Process(mode, ctx, items, 1, <<>>, <<>>),
                     LAMBDA r :
                       IF r.err = "none" THEN r
                       ELSE [r EXCEPT !.args =
                                [i \in 1..Len(list) |->
                                    IF \E j \in 1..r.upto : items[j].src = i
                                    THEN MovedFrom(list[i], ctx.nulled)
                                    ELSE list[i]]]))

\* ---- ArgList::merge ----

FirstWithTag_Last(xargs, tag) ==
    IF \E j \in 1..Len(xargs) : xargs[j].tag = tag
    THEN CHOOSE j \in 1..Len(xargs) :
            /\ xargs[j].tag = tag
            /\ \A h \in (j + 1)..Len(xargs) : xargs[h].tag # tag
    ELSE 0

\* the position of the first cell of xargs with the given tag, or 0
FirstWithTag(xargs, tag) ==
    IF \E j \in 1..Len(xargs) : xargs[j].tag = tag
    THEN CHOOSE j \in 1..Len(xargs) :
            /\ xargs[j].tag = tag
            /\ \A h \in 1..(j - 1) : xargs[h].tag # tag
    ELSE 0

\* xargs.erase(it)
Erase(xargs, j) == SubSeq(xargs, 1, j - 1) \o SubSeq(xargs, j + 1, Len(xargs))

\* "Apply overriding arg values supplied in extraargs"
RECURSIVE ApplyOverrides(_, _, _)
ApplyOverrides(list, xargs, i) ==
    IF i > Len(list) THEN [args |-> list, xargs |-> xargs]
    ELSE LET tag == list[i].m_tag
             j == IF tag = NoTag THEN 0 ELSE FirstWithTag(xargs, tag)
         IN IF j = 0 THEN ApplyOverrides(list, xargs, i + 1)
            ELSE ApplyOverrides([list EXCEPT ![i] = SetValue(@, xargs[j].car)],
                                Erase(xargs, j), i + 1)

\* ArgList::ArgList(const PairList* args, Status status): the elements
ArgListOf(cells) == [i \in 1..Len(cells) |-> Argument(cells[i].tag, cells[i].car)]

\* void ArgList::merge(const ConsCell* extraargs), past its status test
merge(list, extraargs) ==
    LET r == ApplyOverrides(list, extraargs, 1)
    IN r.args \o ArgListOf(r.xargs)

stripTags_FirstOnly(list) ==
    [i \in 1..Len(list) |-> IF i = 1 THEN SetTag(list[i], NoTag) ELSE list[i]]

\* void ArgList::stripTags()
stripTags(list) == [i \in 1..Len(list) |-> SetTag(list[i], NoTag)]

-----------------------------------------------------------------------------
(* ArgList: the inputs, the state and the operations. *)

\* the argument cells of the calls the lists are built from
RawCalls ==
    { <<Cell("a", ValRef(1)), Cell("b", ValRef(2))>>,
      <<Cell("a", ValRef(1)), Cell(NoTag, DotsSymbol), Cell("b", BoundSymbol)>>,
      <<Cell(NoTag, DotsSymbol), Cell(NoTag, ValRef(1)), Cell(NoTag, DotsSymbol)>>,
      <<Cell(NoTag, MissingArgument), Cell(NoTag, ValRef(1))>>,
      <<Cell(NoTag, ValRef(1)), Cell(NoTag, UnboundSymbol), Cell(NoTag, DotsSymbol)>>,
      <<Cell("a", MissingSymbol)>>,
      <<Cell(NoTag, DotsSymbol), Cell("m", MissingArgument)>>,
      <<Cell("a", ValRef(1)), Cell("a", ValRef(2))>>,
      <<Cell(NoTag, QuotedDots), Cell(NoTag, DotsSymbol)>> }

\* the calls whose arguments were evaluated or wrapped before the list was
\* constructed (with Status PROMISED or EVALUATED)
DispatchCalls ==
    { <<Cell("a", ValRef(1)), Cell("b", ValRef(2))>>,
      <<Cell("a", ValRef(1)), Cell(NoTag, DotsSymbol), Cell("b", BoundSymbol)>> }

\* the cells of lists constructed with Status PROMISED or EVALUATED
ValueLists ==
    { <<Cell("a", ValRef(1)), Cell("b", ValRef(2))>>,
      <<Cell(NoTag, ValRef(1))>>,
      <<Cell(NoTag, ValRef(1)), Cell(NoTag, ValRef(2)), Cell(NoTag, ValRef(3))>>,
      <<>> }

\* what '...' may be bound to in env (a call without '...' never reads the
\* binding, and is given none)
DotsBindings ==
    { Binding("unbound", <<>>), Binding("null", <<>>), Binding("missing", <<>>),
      Binding("other", <<>>),
      Binding("dots", <<Cell("c", ValRef(3)), Cell(NoTag, BoundSymbol)>>),
      Binding("dots", <<Cell("d", MissingArgument), Cell(NoTag, ValRef(4))>>) }

\* the extraargs merge() is given
ExtraArgs ==
    { <<Cell("b", ValRef(20)), Cell("c", ValRef(3))>>,
      <<Cell(NoTag, ValRef(5)), Cell("a", ValRef(6)), Cell("a", ValRef(7))>> }

MissingArgHandling == {"Drop", "Keep", "Error"}

\* A record of an operation on the ArgList: its name, how it ended ("ok",
\* "returned" for an early return, "error", "abort"), the error and the
\* argument number it was raised at, the list and status before, the
\* policy or extraargs given, and the evaluations it started, in order.
AOp(op, res, err, at, pre, pre_status, allow_missing, extraargs, ev) ==
    [op |-> op, res |-> res, err |-> err, at |-> at, pre |-> pre,
     pre_status |-> pre_status, allow_missing |-> allow_missing,
     extraargs |-> extraargs, ev |-> ev]

NoAOp == AOp("none", "none", "none", 0, <<>>, "RAW", "none", <<>>, <<>>)

Ctx(allow_missing, values, oob, nulled) ==
    [allow_missing |-> allow_missing, values |-> values, oob |-> oob,
     nulled |-> nulled]

ArgListInit ==
    /\ m_status \in {"RAW", "PROMISED", "EVALUATED"}
    /\ IF m_status = "RAW"
       THEN /\ call \in RawCalls
            /\ args = ArgListOf(call)
       ELSE /\ call \in DispatchCalls
            /\ args \in {ArgListOf(c) : c \in ValueLists}
    /\ dots \in IF has3Dots(ArgListOf(call)) THEN DotsBindings
                ELSE {Binding("unbound", <<>>)}
    /\ alast = NoAOp
    /\ afault = "none"

\* The choices the build makes where they can show: what a moved-from
\* GCEdge holds (when transform() expands a list and an exception leaves
\* moved-from elements behind), and what indexing one past the end of the
\* values does (an assertion of Vector::operator[] or a read of garbage).
NulledChoices(list, status) ==
    IF status = "RAW" /\ has3Dots(list) THEN BOOLEAN ELSE {FALSE}
OobChoices == {"assert", "garbage"}

StatusAfterEvaluate_Always(err, status) == "EVALUATED"

\* The status evaluate() leaves: m_status = EVALUATED is the statement after
\* transform(), which an error raised by an element never reaches.
StatusAfterEvaluate(err, status) ==
    IF err = "none" THEN "EVALUATED" ELSE status

\* void ArgList::evaluate(Environment* env, MissingArgHandling allow_missing)
ArgListEvaluate(allow_missing) ==
    /\ afault = "none"
    /\ \E nulled \in NulledChoices(args, m_status) :
       IF m_status = "EVALUATED"
       THEN /\ alast' = AOp("evaluate", "returned", "none", 0, args, m_status,
                            allow_missing, <<>>, <<>>)
            /\ UNCHANGED <<args, m_status>>
       ELSE \E r \in {transform("evaluate", Ctx(allow_missing, <<>>, "assert", nulled),
                               args, m_status, dots)} :
               /\ args' = r.args
               /\ m_status' = StatusAfterEvaluate(r.err, m_status)
               /\ alast' = AOp("evaluate", IF r.err = "none" THEN "ok" ELSE "error",
                               r.err, r.at, args, m_status, allow_missing, <<>>, r.ev)
    /\ UNCHANGED <<dots, call, afault, pvars, uvars, ovars>>

\* void ArgList::wrapInPromises(Environment* env, const Expression* call),
\* with a non-null env and call
WrapInPromises ==
    /\ afault = "none"
    /\ CASE m_status = "PROMISED" ->
               /\ alast' = AOp("wrapInPromises", "returned", "none", 0, args,
                               m_status, "none", <<>>, <<>>)
               /\ UNCHANGED <<args, m_status, afault>>
         [] m_status = "EVALUATED" ->
               \E oob \in OobChoices, nulled \in NulledChoices(ArgListOf(call), "RAW") :
               \E r \in {transform("wrapEvaluated", Ctx("none", args, oob, nulled),
                                  ArgListOf(call), "RAW", dots)} :
                  /\ args' = IF r.err = "none" THEN r.args ELSE args
                  /\ m_status' = IF r.err = "none" THEN "PROMISED" ELSE m_status
                  /\ afault' = IF r.err = "assert" THEN "assert" ELSE afault
                  /\ alast' = AOp("wrapInPromises",
                                  CASE r.err = "none" -> "ok"
                                    [] r.err = "assert" -> "abort"
                                    [] OTHER -> "error",
                                  r.err, r.at, args, m_status, "none", <<>>, r.ev)
         [] OTHER ->
               \E nulled \in NulledChoices(args, m_status) :
               \E r \in {transform("wrapInPromises", Ctx("none", <<>>, "assert", nulled),
                                  args, m_status, dots)} :
                  /\ args' = r.args
                  /\ m_status' = IF r.err = "none" THEN "PROMISED" ELSE m_status
                  /\ alast' = AOp("wrapInPromises",
                                  IF r.err = "none" THEN "ok" ELSE "error",
                                  r.err, r.at, args, m_status, "none", <<>>, r.ev)
                  /\ UNCHANGED afault
    /\ UNCHANGED <<dots, call, pvars, uvars, ovars>>

MergeRejects_RawOnly(status) == status = "RAW"

\* The test at the head of ArgList::merge(): if (m_status != PROMISED)
MergeRejects(status) == status # "PROMISED"

\* void ArgList::merge(const ConsCell* extraargs)
Merge(extraargs) ==
    /\ afault = "none"
    /\ m_status = "PROMISED" => Len(merge(args, extraargs)) <= MaxArgs
    /\ IF MergeRejects(m_status)
       THEN /\ alast' = AOp("merge", "error",
                            "Internal error: ArgList::merge() requires PROMISED ArgList",
                            0, args, m_status, "none", extraargs, <<>>)
            /\ UNCHANGED args
       ELSE /\ args' = merge(args, extraargs)
            /\ alast' = AOp("merge", "ok", "none", 0, args, m_status, "none",
                            extraargs, <<>>)
    /\ UNCHANGED <<m_status, dots, call, afault, pvars, uvars, ovars>>

\* void ArgList::stripTags()
StripTags ==
    /\ afault = "none"
    /\ args' = stripTags(args)
    /\ alast' = AOp("stripTags", "ok", "none", 0, args, m_status, "none", <<>>, <<>>)
    /\ UNCHANGED <<m_status, dots, call, afault, pvars, uvars, ovars>>

\* ---- Expression::evaluateDirectBuiltInCall ----

\* A BuiltInFunction as the call evaluator sees it: hasFixedArityCall(),
\* arity() (-1: any number of arguments) and whether check1arg() accepts
\* the call's first argument name.
BuiltIn(fixed, arity, first_arg_ok) ==
    [fixed |-> fixed, arity |-> arity, first_arg_ok |-> first_arg_ok]

BuiltIns ==
    { BuiltIn(TRUE, 2, TRUE), BuiltIn(TRUE, 4, TRUE),
      BuiltIn(FALSE, -1, TRUE), BuiltIn(FALSE, -1, FALSE) }

\* func->checkNumArgs(num_evaluated_args, this)
checkNumArgs(func, num_args) == func.arity = -1 \/ func.arity = num_args

\* What the loop of has3Dots() leaves of a list: value() boxes the promise of
\* every element it looks at, up to the first '...'.
BoxedByHas3Dots(list) ==
    [i \in 1..Len(list) |->
        IF \E h \in 1..(i - 1) : Value(list[h]) = DotsSymbol
        THEN list[i] ELSE BoxPromise(list[i])]

\* An Argument of the caller's list once the promise it shares with a copy
\* has been forced to val through the copy.
ForcedThroughCopy(arg, val) ==
    IF arg.m_is_promise_data
    THEN [arg EXCEPT !.m_promise_data =
              PData(arg.m_promise_data.m_valgen, TRUE, val)]
    ELSE IF arg.m_value.k = "promise"
    THEN [arg EXCEPT !.m_value =
              PromiseObject(PData(arg.m_value.d.m_valgen, TRUE, val))]
    ELSE arg

\* The caller's list after an in-place pass over a copy of it that handled
\* its first n elements with the results given.
AfterCopy(list, results, n) ==
    [i \in 1..Len(list) |->
        IF i <= n THEN ForcedThroughCopy(list[i], results[i].m_value)
        ELSE list[i]]

\* The outcome of a call: how it ended ("invokeFixedArity", "invoke",
\* "error", "no return"), the error, the caller's list afterwards and the
\* evaluations started, in order.
CallOutcome(res, err, at, list, ev) ==
    [res |-> res, err |-> err, at |-> at, list |-> list, ev |-> ev]

\* Expression::evaluateDirectBuiltInCall past the expansion of '...': the
\* number-of-arguments and first-argument checks, then either
\* evaluateFixedArityBuiltIn() or evaluate() on a copy and invoke().
\* orig is the caller's list, list the one the call works on (orig itself,
\* or the expanded and evaluated copy), evs the evaluations made so far.
DirectCallOnExpanded(func, orig, list, status, own, evs) ==
    IF ~checkNumArgs(func, Len(list))
    THEN CallOutcome("error", "wrong number of arguments", 0, orig, evs)
    ELSE IF ~func.first_arg_ok
    THEN CallOutcome("error", "wrong first argument name", 0, orig, evs)
    ELSE IF func.fixed /\ status = "EVALUATED"
    THEN CallOutcome("invokeFixedArity", "none", 0, orig, evs)
    ELSE Bind(IF func.fixed THEN [i \in 1..Len(list) |-> BoxPromise(list[i])]
              ELSE list,
      LAMBDA mine :
        Bind(IF status = "EVALUATED"
             THEN [args |-> list, err |-> "none", at |-> 0, ev |-> <<>>,
                   upto |-> Len(list)]
             ELSE Process(IF func.fixed THEN "evaluateObject" ELSE "evaluate",
                          Ctx("Error", <<>>, "assert", FALSE),
                          InPlace(mine), 1, <<>>, <<>>),
          LAMBDA r :
            LET done == IF r.err = "none" THEN r.upto ELSE r.upto - 1
                after == IF own THEN AfterCopy(mine, r.args, done) ELSE orig
            IN IF r.err # "none"
               THEN CallOutcome("error", r.err, r.at, after, evs \o r.ev)
               ELSE CallOutcome(IF func.fixed THEN "invokeFixedArity"
                                ELSE "invoke",
                                "none", 0, after, evs \o r.ev)))

\* RObject* Expression::evaluateDirectBuiltInCall(func, env, arglist)
evaluateDirectBuiltInCall(func, list, status, b) ==
    Bind(BoxedByHas3Dots(list),
      LAMBDA seen :
        IF ~has3Dots(list)
        THEN DirectCallOnExpanded(func, seen, seen, status, TRUE, <<>>)
        ELSE IF status = "EVALUATED"
        THEN \* evaluate() returns at once; the call recurses on an equal list
             CallOutcome("no return", "none", 0, seen, <<>>)
        ELSE Bind(transform("evaluate", Ctx("Error", <<>>, "assert", FALSE),
                            seen, status, b),
               LAMBDA r :
                 Bind(IF status = "RAW" THEN seen
                      ELSE AfterCopy(seen, r.args,
                                     IF r.err = "none" THEN r.upto
                                     ELSE r.upto - 1),
                   LAMBDA after :
                     IF r.err # "none"
                     THEN CallOutcome("error", r.err, r.at, after, r.ev)
                     ELSE IF has3Dots(r.args)
                     THEN CallOutcome("no return", "none", 0, after, r.ev)
                     ELSE DirectCallOnExpanded(func, after, r.args,
                                               "EVALUATED", FALSE, r.ev))))

\* The call evaluator applied to the ArgList, for a builtin with a direct
\* or fixed-arity call.
EvaluateDirectBuiltInCall(func) ==
    /\ afault = "none"
    /\ \E o \in {evaluateDirectBuiltInCall(func, args, m_status, dots)} :
       /\ args' = o.list
       /\ alast' = AOp("evaluateDirectBuiltInCall", o.res, o.err, o.at, args,
                       m_status, IF func.fixed THEN "fixed" ELSE "Error",
                       <<>>, o.ev)
    /\ UNCHANGED <<m_status, dots, call, afault, pvars, uvars, ovars>>

\* ---- ArgList::evaluateToArray ----

\* A record of a call of evaluateToArray(): as AOp, with num_args and the
\* values written to evaluated_args[0], evaluated_args[1], ... in order.
ArrayOp(res, err, at, pre, pre_status, allow_missing, ev, num_args, written) ==
    [op |-> "evaluateToArray", res |-> res, err |-> err, at |-> at,
     pre |-> pre, pre_status |-> pre_status, allow_missing |-> allow_missing,
     extraargs |-> <<>>, ev |-> ev, num_args |-> num_args,
     written |-> written]

\* The elements the loops of evaluateToArray() hand to
\* evaluateSingleArgument(): those of the list and, when the status is RAW,
\* the cells of the DottedArgs in place of each '...'.
ArrayItems(list, status, b) ==
    IF status = "RAW" THEN Expanded(list, b, 1) ELSE InPlace(list)

AfterToArray_Updates(list, items, results, upto, done) ==
    [i \in 1..Len(list) |->
        IF \E j \in 1..done : items[j].src = i
        THEN LET j == CHOOSE j \in 1..done : items[j].src = i
             IN SetValue(list[i], results[j].m_value)
        ELSE list[i]]

\* The list after evaluateToArray() has visited the first upto items, of
\* which the first done were evaluated with the results given: value()
\* has boxed the promise of every element visited, and the promises
\* evaluated are forced.
AfterToArray(list, items, results, upto, done) ==
    [i \in 1..Len(list) |->
        IF \E j \in 1..done : items[j].src = i
        THEN LET j == CHOOSE j \in 1..done : items[j].src = i
             IN ForcedThroughCopy(BoxPromise(list[i]), results[j].m_value)
        ELSE IF \E j \in 1..upto : items[j].src = i
        THEN BoxPromise(list[i])
        ELSE list[i]]

\* void ArgList::evaluateToArray(env, num_args, evaluated_args,
\* allow_missing) const, past its first assertion: the list afterwards, the
\* values written to the buffer in order, the error raised (if any), the
\* argument number it was raised at, and the evaluations started.
evaluateToArray(list, status, b, allow_missing) ==
    IF status = "EVALUATED"
    THEN [list |-> [i \in 1..Len(list) |-> BoxPromise(list[i])],
          written |-> [i \in 1..Len(list) |-> Value(list[i])],
          err |-> "none", at |-> 0, ev |-> <<>>]
    ELSE Bind(ArrayItems(list, status, b),
      LAMBDA items :
        Bind(Process("evaluate", Ctx(allow_missing, <<>>, "assert", FALSE),
                     items, 1, <<>>, <<>>),
          LAMBDA r :
            LET done == IF r.err = "none" THEN Len(items) ELSE r.at - 1
            IN [list |-> AfterToArray(list, items, r.args, r.upto, done),
                written |-> [j \in 1..done |-> r.args[j].m_value],
                err |-> r.err, at |-> r.at, ev |-> r.ev]))

\* evaluateToArray() called with num_args = size(), as its documentation
\* requires.  ndebug is whether the build leaves assertions out: with
\* assertions, the policy Drop and a count of results other than num_args
\* stop the program.
EvaluateToArray(allow_missing) ==
    /\ afault = "none"
    /\ \E ndebug \in BOOLEAN :
       IF allow_missing = "Drop" /\ ~ndebug
       THEN /\ afault' = "assert"
            /\ alast' = ArrayOp("abort", "assert", 0, args, m_status,
                                allow_missing, <<>>, Len(args), <<>>)
            /\ UNCHANGED args
       ELSE \E o \in {evaluateToArray(args, m_status, dots, allow_missing)} :
            LET stop == o.err = "none" /\ Len(o.written) # Len(args) /\ ~ndebug
            IN /\ args' = o.list
               /\ afault' = IF stop THEN "assert" ELSE afault
               /\ alast' = ArrayOp(CASE o.err # "none" -> "error"
                                     [] stop -> "abort"
                                     [] OTHER -> "ok",
                                   IF stop THEN "assert" ELSE o.err, o.at,
                                   args, m_status, allow_missing, o.ev,
                                   Len(args), o.written)
    /\ UNCHANGED <<m_status, dots, call, pvars, uvars, ovars>>

ArgListNext ==
    \/ \E allow_missing \in MissingArgHandling : ArgListEvaluate(allow_missing)
    \/ WrapInPromises
    \/ \E extraargs \in ExtraArgs : Merge(extraargs)
    \/ StripTags
    \/ \E func \in BuiltIns : EvaluateDirectBuiltInCall(func)
    \/ \E allow_missing \in MissingArgHandling : EvaluateToArray(allow_missing)

-----------------------------------------------------------------------------
(* Argument: one object and its copies, with the PromiseData it embeds.    *)

\* The PromiseData an Argument embeds, with the members that decide what
\* it refers to.
Payload(ptr, evaluated, value, valgen) ==
    [m_is_pointer_to_promise |-> ptr, m_is_evaluated |-> evaluated,
     m_value |-> value, m_valgen |-> valgen]

\* PromiseData::PromiseData(Promise* value); m_is_evaluated is left
\* uninitialised and never read while m_is_pointer_to_promise is true.
PayloadOfPointer(promise) == Payload(TRUE, FALSE, promise, NullRef)

\* PromiseData::PromiseData(const RObject* valgen, Environment* env)
PayloadOfExpression(valgen) == Payload(FALSE, FALSE, EnvRef, valgen)

\* PromiseData::createEvaluatedPromise(expression, value)
PayloadOfEvaluated(valgen, value) == Payload(FALSE, TRUE, value, valgen)

\* PromiseData::detachReferents()
PayloadDetached(pd) == [pd EXCEPT !.m_value = NullRef, !.m_valgen = NullRef]

\* Whether a PromiseData holds a referent (what visitReferents() visits).
HoldsReferents(pd) == pd.m_value # NullRef \/ pd.m_valgen # NullRef

\* Promise* PromiseData::asPromise() const: the Promise returned, the
\* PromiseData afterwards and the Promise objects afterwards.
PayloadAsPromise(pd, heap) ==
    IF pd.m_is_pointer_to_promise
    THEN [promise |-> pd.m_value, pd |-> pd, heap |-> heap]
    ELSE [promise |-> PromRef(Len(heap) + 1),
          pd |-> PayloadOfPointer(PromRef(Len(heap) + 1)),
          heap |-> Append(heap, pd)]

\* Argument::Argument(const Symbol* tag, RObject* value)
NewArgument(tag, value) ==
    [m_tag |-> tag, m_is_promise_data |-> FALSE, m_value |-> value,
     m_promise_data |-> PayloadOfPointer(NullRef)]

NoArgument == [m_tag |-> "free"]

ArgumentSlots == 1..MaxArguments
LiveArguments == {a \in ArgumentSlots : arguments[a] # NoArgument}
FreeArguments == ArgumentSlots \ LiveArguments

\* the values an Argument is constructed with or set to: an object or null
ArgumentValues == {ValRef(1), NullRef}

\* A record of an operation on an Argument: its name, the Argument, how
\* it ended, and how many operations were applied so far.
GOp(op, slot, res) ==
    [op |-> op, slot |-> slot, res |-> res, n |-> glast.n + 1]

NoGOp == [op |-> "none", slot |-> 0, res |-> "none", n |-> 0]

ArgumentInit ==
    /\ \E value \in ArgumentValues :
          arguments = [a \in ArgumentSlots |->
                          IF a = 1 THEN NewArgument("a", value) ELSE NoArgument]
    /\ promises = <<>>
    /\ glast = NoGOp
    /\ gfault = "none"

\* void Argument::wrapInPromise(Environment* env).  ndebug is whether the
\* build leaves the assertion out.
ArgWrapInPromise(a, ndebug) ==
    /\ gfault = "none"
    /\ glast.n < MaxOps
    /\ a \in LiveArguments
    /\ LET arg == arguments[a] IN
       IF arg.m_is_promise_data /\ ~ndebug
       THEN /\ gfault' = "assert"
            /\ glast' = GOp("wrapInPromise", a, "abort")
            /\ UNCHANGED arguments
       ELSE /\ arguments' = [arguments EXCEPT ![a] =
                [arg EXCEPT !.m_promise_data = PayloadOfExpression(arg.m_value),
                            !.m_is_promise_data = TRUE,
                            !.m_value = NullRef]]
            /\ glast' = GOp("wrapInPromise", a, "ok")
            /\ UNCHANGED gfault
    /\ UNCHANGED <<promises, pvars, uvars, avars, fvars, rvars, vvars>>

\* void Argument::wrapInEvaluatedPromise(RObject* value)
ArgWrapInEvaluatedPromise(a, value, ndebug) ==
    /\ gfault = "none"
    /\ glast.n < MaxOps
    /\ a \in LiveArguments
    /\ LET arg == arguments[a] IN
       IF arg.m_is_promise_data /\ ~ndebug
       THEN /\ gfault' = "assert"
            /\ glast' = GOp("wrapInEvaluatedPromise", a, "abort")
            /\ UNCHANGED arguments
       ELSE /\ arguments' = [arguments EXCEPT ![a] =
                [arg EXCEPT !.m_promise_data =
                                PayloadOfEvaluated(arg.m_value, value),
                            !.m_is_promise_data = TRUE,
                            !.m_value = NullRef]]
            /\ glast' = GOp("wrapInEvaluatedPromise", a, "ok")
            /\ UNCHANGED gfault
    /\ UNCHANGED <<promises, pvars, uvars, avars, fvars, rvars, vvars>>

\* RObject* Argument::value() const, with boxPromise()
ArgValue(a) ==
    /\ gfault = "none"
    /\ glast.n < MaxOps
    /\ a \in LiveArguments
    /\ LET arg == arguments[a]
           r == PayloadAsPromise(arg.m_promise_data, promises)
       IN  IF arg.m_is_promise_data
           THEN /\ Len(r.heap) <= MaxPromises
                /\ arguments' = [arguments EXCEPT ![a] =
                      [arg EXCEPT !.m_value = r.promise,
                                  !.m_promise_data = PayloadDetached(r.pd),
                                  !.m_is_promise_data = FALSE]]
                /\ promises' = r.heap
           ELSE UNCHANGED <<arguments, promises>>
    /\ glast' = GOp("value", a, "ok")
    /\ UNCHANGED <<gfault, pvars, uvars, avars, fvars, rvars, vvars>>

\* void Argument::setValue(RObject* value)
ArgSetValue(a, value) ==
    /\ gfault = "none"
    /\ glast.n < MaxOps
    /\ a \in LiveArguments
    /\ LET arg == arguments[a] IN
       arguments' = [arguments EXCEPT ![a] =
          [arg EXCEPT !.m_value = value,
                      !.m_promise_data =
                          IF arg.m_is_promise_data
                          THEN PayloadDetached(arg.m_promise_data)
                          ELSE arg.m_promise_data,
                      !.m_is_promise_data = FALSE]]
    /\ glast' = GOp("setValue", a, "ok")
    /\ UNCHANGED <<promises, gfault, pvars, uvars, avars, fvars, rvars, vvars>>

\* void Argument::detachReferents()
ArgDetachReferents(a) ==
    /\ gfault = "none"
    /\ glast.n < MaxOps
    /\ a \in LiveArguments
    /\ LET arg == arguments[a] IN
       arguments' = [arguments EXCEPT ![a] =
          IF arg.m_is_promise_data
          THEN [arg EXCEPT !.m_tag = NoTag,
                           !.m_promise_data = PayloadDetached(arg.m_promise_data)]
          ELSE [arg EXCEPT !.m_tag = NoTag, !.m_value = NullRef]]
    /\ glast' = GOp("detachReferents", a, "ok")
    /\ UNCHANGED <<promises, gfault, pvars, uvars, avars, fvars, rvars, vvars>>

\* Argument::Argument(const Argument&) = default, copying a into a free
\* slot: the members are copied one by one, m_promise_data by
\* PromiseData::PromiseData(const PromiseData& source), which calls
\* source.asPromise().
ArgCopy(a) ==
    /\ gfault = "none"
    /\ glast.n < MaxOps
    /\ a \in LiveArguments
    /\ FreeArguments # {}
    /\ LET arg == arguments[a]
           c == CHOOSE f \in FreeArguments : \A g \in FreeArguments : f <= g
           r == PayloadAsPromise(arg.m_promise_data, promises)
       IN  /\ Len(r.heap) <= MaxPromises
           /\ arguments' = [arguments EXCEPT
                 ![a] = [arg EXCEPT !.m_promise_data = r.pd],
                 ![c] = [arg EXCEPT !.m_promise_data =
                                        PayloadOfPointer(r.promise)]]
           /\ promises' = r.heap
    /\ glast' = GOp("copy", a, "ok")
    /\ UNCHANGED <<gfault, pvars, uvars, avars, fvars, rvars, vvars>>

\* PromiseData::evaluate() on a PromiseData that is not a pointer, the
\* evaluation of the expression returning val: setEvaluatedValue(val).
PayloadEvaluated(pd, val) ==
    IF pd.m_is_evaluated THEN pd
    ELSE [pd EXCEPT !.m_value = val, !.m_is_evaluated = TRUE]

\* RObject* Argument::forcedValue(), the evaluation of a promise's
\* expression returning val (or throwing, which changes no referent).
\* A null pointer where a Promise or an object is expected is dereferenced.
ArgForcedValue(a, val) ==
    /\ gfault = "none"
    /\ glast.n < MaxOps
    /\ a \in LiveArguments
    /\ LET arg == arguments[a]
           pd == arg.m_promise_data
           target == IF arg.m_is_promise_data THEN pd.m_value ELSE arg.m_value
       IN  IF arg.m_is_promise_data /\ ~pd.m_is_pointer_to_promise
           THEN /\ arguments' = [arguments EXCEPT ![a].m_promise_data =
                                    PayloadEvaluated(pd, val)]
                /\ glast' = GOp("forcedValue", a, "ok")
                /\ UNCHANGED <<promises, gfault>>
           ELSE IF target = NullRef
           THEN /\ gfault' = "null dereference"
                /\ glast' = GOp("forcedValue", a, "abort")
                /\ UNCHANGED <<arguments, promises>>
           ELSE IF target.k = "promise"
           THEN /\ promises' = [promises EXCEPT ![target.i] =
                                    PayloadEvaluated(promises[target.i], val)]
                /\ glast' = GOp("forcedValue", a, "ok")
                /\ UNCHANGED <<arguments, gfault>>
           ELSE /\ glast' = GOp("forcedValue", a, "ok")
                /\ UNCHANGED <<arguments, promises, gfault>>
    /\ UNCHANGED <<pvars, uvars, avars, fvars, rvars, vvars>>

ArgumentNext ==
    \/ \E a \in ArgumentSlots, ndebug \in BOOLEAN : ArgWrapInPromise(a, ndebug)
    \/ \E a \in ArgumentSlots, ndebug \in BOOLEAN :
          ArgWrapInEvaluatedPromise(a, ValRef(1), ndebug)
    \/ \E a \in ArgumentSlots : ArgValue(a)
    \/ \E a \in ArgumentSlots, value \in ArgumentValues : ArgSetValue(a, value)
    \/ \E a \in ArgumentSlots : ArgDetachReferents(a)
    \/ \E a \in ArgumentSlots : ArgCopy(a)
    \/ \E a \in ArgumentSlots : ArgForcedValue(a, ValRef(1))
-----------------------------------------------------------------------------
(* Expression::invokeClosureImpl: the frame of the execution environment,  *)
(* filled by argument matching and then by the method bindings.            *)

\* the symbols a frame may bind: two formal parameters and a dispatch variable
FrameSymbols == <<"x", "y", ".Generic">>
SymbolSet == {FrameSymbols[i] : i \in 1..Len(FrameSymbols)}

\* Frame::Binding: its value and where it came from
FrameBinding(value, origin) == [value |-> value, origin |-> origin]

\* what Frame::binding(sym) returns for a symbol the frame does not bind
NoFrameBinding == [origin |-> "none"]

\* Frame::binding(sym) != nullptr
IsBound(frame, sym) == frame[sym] # NoFrameBinding

\* Frame::importBinding(binding): the frame binds the symbol of the binding
\* to a copy of it, whatever it bound before
importBinding(frame, sym, binding) == [frame EXCEPT ![sym] = binding]

EmptyFrame == [sym \in SymbolSet |-> NoFrameBinding]

\* the bindings argument matching creates: a supplied value
MatchedBindings == {FrameBinding(v, "EXPLICIT") : v \in 1..NumFrameValues}

\* the frames matchArgsIntoEnvironment() leaves: each symbol bound to a
\* supplied value, or not bound
MatchedFrames == [SymbolSet -> MatchedBindings \cup {NoFrameBinding}]

\* the method bindings of a dispatch: values of the dispatcher's own
MethodFrames ==
    [SymbolSet -> {FrameBinding(0, "DEFAULTED"), NoFrameBinding}]

\* method_bindings == nullptr
NullFrame == [sym \in SymbolSet |-> [origin |-> "nullptr"]]

\* the visit of one binding in importMethodBindings() that imports it
\* whether or not the frame binds its symbol
importOne_Overwrite(frame, sym, binding) ==
    importBinding(frame, sym, binding)

\* the visit of one binding in importMethodBindings()
importOne(frame, sym, binding) ==
    IF ~IsBound(frame, sym) THEN importBinding(frame, sym, binding)
    ELSE frame

\* Expression::importMethodBindings(method_bindings, newframe):
\* visitBindings() visits the bindings of method_bindings from the i-th on
RECURSIVE importMethodBindings(_, _, _)
importMethodBindings(method_bindings, frame, i) ==
    IF i > Len(FrameSymbols) THEN frame
    ELSE importMethodBindings(
             method_bindings,
             IF IsBound(method_bindings, FrameSymbols[i])
             THEN importOne(frame, FrameSymbols[i],
                            method_bindings[FrameSymbols[i]])
             ELSE frame,
             i + 1)

FOp(op, pre, method_bindings) ==
    [op |-> op, pre |-> pre, method_bindings |-> method_bindings]

NoFOp == FOp("none", EmptyFrame, NullFrame)

FrameInit ==
    /\ newframe = EmptyFrame
    /\ flast = NoFOp

\* Expression::invokeClosureImpl(func, calling_env, parglist,
\* method_bindings), up to the execution of the body: matched is the frame
\* of the new execution environment after matchArgsIntoEnvironment()
InvokeClosureImpl(matched, method_bindings) ==
    /\ newframe' = IF method_bindings # NullFrame
                   THEN importMethodBindings(method_bindings, matched, 1)
                   ELSE matched
    /\ flast' = FOp("invokeClosureImpl", matched, method_bindings)
    /\ UNCHANGED <<pvars, uvars, avars, gvars, rvars, vvars>>

\* the static Expression::importMethodBindings() applied to the frame as
\* it is (a null method_bindings is dereferenced: no caller passes one)
ImportMethodBindings(method_bindings) ==
    /\ newframe' = importMethodBindings(method_bindings, newframe, 1)
    /\ flast' = FOp("importMethodBindings", newframe, method_bindings)
    /\ UNCHANGED <<pvars, uvars, avars, gvars, rvars, vvars>>

FrameNext ==
    \/ \E matched \in MatchedFrames,
          method_bindings \in MethodFrames \cup {NullFrame} :
              InvokeClosureImpl(matched, method_bindings)
    \/ \E method_bindings \in MethodFrames :
              ImportMethodBindings(method_bindings)
-----------------------------------------------------------------------------
(* RObjectProxy<RObject>: the 64-bit word m_value and what is asked of it. *)

\* static constexpr uintptr_t shiftbits(uintptr_t value): value << 60
shiftbits(value) == Shl(W4(0, 0, 0, value), 60)

\* (value & 0x7) << 61
shift_3_bits(w) == Shl(BitAnd(w, W4(0, 0, 0, 7)), 61)

\* (value >> 61) & 0x7
unshift_3_bits(w) == BitAnd(Shr(w, 61), W4(0, 0, 0, 7))

s_flag_bits_mask == shiftbits(15)
s_top_3_bits_mask == shiftbits(14)
s_any_ptr_flag_bitsmask == shiftbits(6)

s_robject_tag == ZeroWord
s_logical_tag == shiftbits(6)
s_int_tag == shiftbits(7)
s_string_tag == shiftbits(8)
\* shiftbits(0x14): the shift drops bit 4 of 0x14
s_nil_tag == shiftbits(20)

getFlagBits(w) == BitAnd(w, s_flag_bits_mask)

\* static constexpr StorageType s_storage_type[16] of RObjectProxy
RObjectProxy_s_storage_type ==
    << "ROBJECT", "ROBJECT", "SCALAR_REAL", "SCALAR_REAL",
       "SCALAR_REAL", "SCALAR_REAL", "SCALAR_LOGICAL", "SCALAR_INTEGER",
       "SCALAR_STRING", "SCALAR_STRING", "SCALAR_REAL", "SCALAR_REAL",
       "SCALAR_REAL", "SCALAR_REAL", "NIL", "SCALAR_REAL" >>

\* RObjectProxy::getStorageType()
RObjectProxy_getStorageType(w) ==
    RObjectProxy_s_storage_type[
        (w[60] + 2 * w[61] + 4 * w[62] + 8 * w[63]) + 1]

isRealZero(w) == w = ZeroWord

isNull(w) == getFlagBits(w) = s_nil_tag

isPointer(w) ==
    IF isRealZero(w) THEN FALSE
    ELSE BitAnd(w, s_any_ptr_flag_bitsmask) = ZeroWord

isRObject(w) ==
    IF w = ZeroWord THEN FALSE
    ELSE BitAnd(w, s_top_3_bits_mask) = s_robject_tag

\* getPointer(): (bits & ~0x7) ^ shift_3_bits(bits)
getPointer(w) ==
    BitXor(BitAnd(w, BitNot(W4(0, 0, 0, 7))), shift_3_bits(w))

\* getSexpType(), but for a heap object, whose own type is asked
getSexpType(w) ==
    CASE RObjectProxy_getStorageType(w) = "NIL" -> "NILSXP"
      [] RObjectProxy_getStorageType(w) = "SCALAR_LOGICAL" -> "LGLSXP"
      [] RObjectProxy_getStorageType(w) = "SCALAR_INTEGER" -> "INTSXP"
      [] RObjectProxy_getStorageType(w) = "SCALAR_REAL" -> "REALSXP"
      [] RObjectProxy_getStorageType(w) = "SCALAR_STRING" -> "STRSXP"
      [] OTHER -> IF isRealZero(w) THEN "REALSXP" ELSE "heap object"

\* the word setPointer(value, tag) stores
setPointer(value, tag) ==
    BitOr(BitOr(BitAnd(value, BitNot(s_top_3_bits_mask)), tag),
          unshift_3_bits(BitXor(value, tag)))

\* the word setInteger(i) stores: i | s_int_tag, i sign-extended
RObjectProxy_setInteger(i) == BitOr(SignExtend(i), s_int_tag)

\* the word setLogical(value) stores
setLogical(value) == BitOr(SignExtend(value), s_logical_tag)

\* the word setString(value) stores
setString(value) == setPointer(value, s_string_tag)

\* the word setReal(real) stores; boxed is the address of the RealVector
\* Rf_ScalarReal(real) allocates when the real cannot be stored natively
setReal(real, boxed) ==
    IF real \notin {PosZero, NegZero}
       /\ RObjectProxy_getStorageType(real) # "SCALAR_REAL"
    THEN setPointer(boxed, s_robject_tag)
    ELSE real

\* size(), but for a heap object, whose own size is asked
size(w) ==
    IF isNull(w) THEN "0"
    ELSE IF isPointer(w) THEN "heap object" ELSE "1"

\* attributes() is null unless the value is a heap object with attributes
NoAttributes(w) == ~isRObject(w)

\* asScalarInteger(), but for the values that are coerced or boxed
asScalarInteger(w) ==
    CASE RObjectProxy_getStorageType(w) = "SCALAR_INTEGER"
             -> [kind |-> "int", value |-> GetLower32Bits(w)]
      [] RObjectProxy_getStorageType(w) = "SCALAR_LOGICAL"
             -> [kind |-> "int", value |-> GetLower32Bits(w)]
      [] RObjectProxy_getStorageType(w) = "ROBJECT" /\ isRealZero(w)
             -> [kind |-> "int", value |-> 0]
      [] OTHER -> [kind |-> "coerced", value |-> 0]

\* a store of value through the int* getInteger() returns, as INTEGER(x)[0]
\* = value does
WriteLower32Bits(w, value) ==
    [i \in BitPos |-> IF i <= 31 THEN IntBit(value, i) ELSE w[i]]

\* Logical: false, true and NA (the int NA_LOGICAL = INT_MIN)
LogicalInputs == {0, 1, -2147483647 - 1}

\* the addresses of heap objects
HeapInputs == PointerInputs \ {ZeroWord}

ROp(kind, word, ival) == [kind |-> kind, word |-> word, ival |-> ival]

\* RObjectProxy(): RObjectProxy(nullptr)
ProxyInit ==
    /\ r_bits = setPointer(ZeroWord, s_robject_tag)
    /\ rlast = ROp("default", ZeroWord, 0)

\* RObjectProxy(const RObject* value)
NewFromPointer(value) ==
    /\ rlast.kind # "assert"
    /\ r_bits' = setPointer(value, s_robject_tag)
    /\ rlast' = ROp("pointer", value, 0)
    /\ UNCHANGED <<pvars, uvars, avars, gvars, fvars, vvars>>

\* RObjectProxy<StringVector>::RObjectProxy(RHandle<String> value)
NewFromString(value) ==
    /\ rlast.kind # "assert"
    /\ r_bits' = setString(value)
    /\ rlast' = ROp("string", value, 0)
    /\ UNCHANGED <<pvars, uvars, avars, gvars, fvars, vvars>>

\* RObjectProxy<LogicalVector>::RObjectProxy(Logical value)
NewFromLogical(value) ==
    /\ rlast.kind # "assert"
    /\ r_bits' = setLogical(value)
    /\ rlast' = ROp("logical", ZeroWord, value)
    /\ UNCHANGED <<pvars, uvars, avars, gvars, fvars, vvars>>

\* RObjectProxy<IntVector>::RObjectProxy(int value)
NewFromInteger(value) ==
    /\ rlast.kind # "assert"
    /\ r_bits' = RObjectProxy_setInteger(value)
    /\ rlast' = ROp("integer", ZeroWord, value)
    /\ UNCHANGED <<pvars, uvars, avars, gvars, fvars, vvars>>

\* RObjectProxy<RealVector>::RObjectProxy(double value)
NewFromReal(value, boxed) ==
    /\ rlast.kind # "assert"
    /\ r_bits' = setReal(value, boxed)
    /\ rlast' = ROp("real", value, 0)
    /\ UNCHANGED <<pvars, uvars, avars, gvars, fvars, vvars>>

\* INTEGER(value)[0] = element on an RValue<IntVector> holding a scalar:
\* getInteger() asserts the storage type and returns the lower 32 bits
WriteElement(element) ==
    /\ rlast.kind \in {"integer", "writeInteger"}
    /\ \E ndebug \in BOOLEAN :
          IF RObjectProxy_getStorageType(r_bits) = "SCALAR_INTEGER" \/ ndebug
          THEN /\ r_bits' = WriteLower32Bits(r_bits, element)
               /\ rlast' = ROp("writeInteger", ZeroWord, element)
          ELSE /\ rlast' = ROp("assert", ZeroWord, element)
               /\ UNCHANGED r_bits
    /\ UNCHANGED <<pvars, uvars, avars, gvars, fvars, vvars>>

ProxyNext ==
    \/ \E element \in IntInputs : WriteElement(element)
    \/ \E value \in PointerInputs : NewFromPointer(value)
    \/ \E value \in HeapInputs : NewFromString(value)
    \/ \E value \in LogicalInputs : NewFromLogical(value)
    \/ \E value \in IntInputs : NewFromInteger(value)
    \/ \E value \in DoubleInputs, boxed \in HeapInputs :
           NewFromReal(value, boxed)
-----------------------------------------------------------------------------
(* Vector<int, N>: its storage, and the std::vector the tests compare it   *)
(* with.  Indices and iterators are offsets from begin(), starting at 0.   *)

\* An element of the storage: constructed with a value, or storage that
\* holds an indeterminate value (never constructed, destroyed, or an int
\* that was default-initialized).
Elem(x) == [init |-> TRUE, x |-> x]
RawCell == [init |-> FALSE, x |-> 0]
Elems(xs) == [j \in 1..Len(xs) |-> Elem(xs[j])]

\* A Vector: the cells of its storage (capacity() of them), m_size,
\* m_is_small, and whether a store went past the end of the storage.
Vec(cells, sz, small, oob) ==
    [cells |-> cells, m_size |-> sz, m_is_small |-> small, oob |-> oob]

\* Vector::Vector()
EmptyVec == Vec([j \in 1..N |-> RawCell], 0, TRUE, FALSE)

\* Vector::capacity()
capacity(v) == Len(v.cells)

\* *(begin() + i)
CellAt(v, i) == IF i < capacity(v) THEN v.cells[i + 1] ELSE RawCell

\* the cells of [begin() + first, begin() + last)
Range(v, from, upto) == [j \in 1..(upto - from) |-> CellAt(v, from + j - 1)]

\* the cells cs stored at begin() + dest and after it; a store at or
\* beyond capacity() is outside the storage
Store(v, dest, cs) ==
    [v EXCEPT !.cells = [i \in 1..Len(v.cells) |->
                            IF i - 1 >= dest /\ i - 1 < dest + Len(cs)
                            THEN cs[i - dest] ELSE v.cells[i]],
              !.oob = v.oob \/ (Len(cs) > 0 /\ dest + Len(cs) > Len(v.cells))]

\* Vector::setSize(size)
setSize(v, sz) == [v EXCEPT !.m_size = sz]

\* std::move(first, last, dest), std::move_backward(first, last, d_last)
\* and uninitialized_move(first, last, dest) on ints: the cells of the
\* source range, as they were, stored at the destination (the direction of
\* each copy protects the overlapping ranges they are called with)
move(v, from, upto, dest) == Store(v, dest, Range(v, from, upto))
move_backward(v, from, upto, d_last) ==
    Store(v, d_last - (upto - from), Range(v, from, upto))
uninitialized_move(v, from, upto, dest) ==
    Store(v, dest, Range(v, from, upto))

\* Vector::destroy_last_n_elements(n), for n <= size()
destroy_last_n_elements(v, n) ==
    setSize(Store(v, v.m_size - n, [j \in 1..n |-> RawCell]), v.m_size - n)

\* Vector::shrinkToSize(count)
shrinkToSize(v, count) == destroy_last_n_elements(v, v.m_size - count)

\* Vector::reallocate(new_capacity), with setPointer(new_data)
reallocate(v, new_capacity) ==
    Bind(IF new_capacity >= capacity(v) + capacity(v) \div 2
         THEN new_capacity ELSE capacity(v) + capacity(v) \div 2,
         LAMBDA c :
             Vec([j \in 1..c |-> IF j <= v.m_size THEN v.cells[j] ELSE RawCell],
                 v.m_size, FALSE, v.oob))

\* Vector::reallocateIfNeeded(new_capacity)
reallocateIfNeeded(v, new_capacity) ==
    IF new_capacity <= capacity(v) THEN v ELSE reallocate(v, new_capacity)


\* Vector::moveElementsForward(first, last, dest)
moveElementsForward(v, from, upto, dest) ==
    IF dest + (upto - from) < v.m_size
    THEN move_backward(v, from, upto, dest + (upto - from))
    ELSE Bind(uninitialized_move(v, v.m_size - (upto - from), upto, v.m_size),
              LAMBDA w : move_backward(w, from, v.m_size - (upto - from),
                                       v.m_size))

\* Vector::emplace_back(item)
emplace_back(v, item) ==
    Bind(reallocateIfNeeded(v, v.m_size + 1),
         LAMBDA w : setSize(Store(w, w.m_size, <<Elem(item)>>), w.m_size + 1))

\* Vector::insert(pos, value), with the offset of the iterator it returns
insert(v, offset, value) ==
    IF offset = v.m_size
    THEN [vec |-> emplace_back(v, value), ret |-> v.m_size]
    ELSE [vec |-> Bind(moveElementsForward(
                           reallocateIfNeeded(v, v.m_size + 1),
                           offset, v.m_size, offset + 1),
                       LAMBDA w : setSize(Store(w, offset, <<Elem(value)>>),
                                          w.m_size + 1)),
          ret |-> offset]

\* the new elements insert(pos, first, last) stores after it has moved the
\* elements behind pos
InsertNew(w, offset, values) ==
    IF offset + Len(values) < w.m_size
    THEN Store(w, offset, Elems(values))
    ELSE Store(Store(w, offset, Elems(SubSeq(values, 1, w.m_size - offset))),
               w.m_size,
               Elems(SubSeq(values, w.m_size - offset + 1, Len(values))))

\* Vector::insert(pos, first, last)
insert_range(v, offset, values) ==
    IF values = <<>> THEN v
    ELSE Bind(moveElementsForward(
                  reallocateIfNeeded(v, v.m_size + Len(values)),
                  offset, v.m_size, offset + Len(values)),
              LAMBDA w : setSize(InsertNew(w, offset, values),
                                 w.m_size + Len(values)))

\* Vector::erase(pos)
erase(v, offset) ==
    destroy_last_n_elements(move(v, offset + 1, v.m_size, offset), 1)

\* Vector::erase(first, last)
erase_range(v, from, upto) ==
    destroy_last_n_elements(move(v, upto, v.m_size, from), upto - from)

\* Vector::clear()
clear(v) == shrinkToSize(v, 0)

\* Vector::assign(first, last)
assign(v, values) ==
    IF Len(values) < v.m_size
    THEN shrinkToSize(Store(v, 0, Elems(values)), Len(values))
    ELSE setSize(Store(reallocateIfNeeded(v, Len(values)), 0, Elems(values)),
                 Len(values))

\* Vector::assign(n, value)
assign_fill(v, n, value) ==
    IF v.m_size > n
    THEN Store(shrinkToSize(v, n), 0, [j \in 1..n |-> Elem(value)])
    ELSE setSize(Store(reallocateIfNeeded(v, n), 0,
                       [j \in 1..n |-> Elem(value)]), n)

\* the indices end() + i, i < count, at which resize(count) constructs an
\* element when count > size()
Constructed(sz, count) == sz .. (sz + count - 1)

\* Vector::resize(count): a default-initialized int holds an
\* indeterminate value
resize(v, count) ==
    IF count <= v.m_size THEN shrinkToSize(v, count)
    ELSE Bind(reallocateIfNeeded(v, count),
              LAMBDA w :
                  setSize(Store(w, w.m_size,
                                [j \in 1..Cardinality(Constructed(w.m_size, count))
                                     |-> RawCell]),
                          count))

\* whether at(t) throws std::out_of_range rather than returning (*this)[t]:
\* Vector::at(t): `if (t < size()) throw std::out_of_range("Vector")`
at_Throws(sz, t) == t < sz
-----------------------------------------------------------------------------
(* Vector: the state and the operations, each applied to the Vector and to *)
(* the std::vector.                                                        *)

ElemValues == 1..NumElements

\* the ranges assigned and inserted
RangeInputs == UNION {[1..n -> ElemValues] : n \in 0..MaxRange}

\* the Vector the variables hold
ThisVec == Vec(storage, m_size, m_is_small, FALSE)

\* A record of an operation: its name, its offset or count, its values,
\* the elements of the Vector before it, the offset of the iterator it
\* returned (or the size, for the operations that return none), how it
\* ended, and how many operations were applied so far.
VOp(op, offset, values, ret, res) ==
    [op |-> op, offset |-> offset, values |-> values,
     pre |-> Range(ThisVec, 0, m_size), ret |-> ret, res |-> res,
     n |-> vlast.n + 1]

\* std::vector<int>::insert(begin() + offset, values)
ModelInsert(offset, values) ==
    SubSeq(model, 1, offset) \o values \o SubSeq(model, offset + 1, Len(model))

\* std::vector<int>::erase(begin() + first, begin() + last)
ModelErase(from, upto) ==
    SubSeq(model, 1, from) \o SubSeq(model, upto + 1, Len(model))

VectorInit ==
    /\ storage = EmptyVec.cells
    /\ m_size = 0
    /\ m_is_small = TRUE
    /\ model = <<>>
    /\ vlast = [op |-> "none", offset |-> 0, values |-> <<>>, pre |-> <<>>,
                ret |-> 0, res |-> "none", n |-> 0]
    /\ vfault = "none"

\* The Vector after an operation left it as r, and the std::vector after
\* the same operation left it as next_model; a store outside the storage
\* is undefined behaviour, after which nothing more is modelled.
Applied(r, next_model, op) ==
    /\ storage' = r.cells
    /\ m_size' = r.m_size
    /\ m_is_small' = r.m_is_small
    /\ model' = next_model
    /\ vlast' = op
    /\ vfault' = IF r.oob THEN "out of bounds" ELSE "none"
    /\ UNCHANGED <<pvars, uvars, avars, gvars, fvars, rvars>>

\* resize(count) with count <= size(), as the tests exercise it
ResizeShrink(count) ==
    /\ vfault = "none"
    /\ vlast.n < MaxVectorOps
    /\ count <= m_size
    /\ Applied(resize(ThisVec, count), SubSeq(model, 1, count),
               VOp("resize", count, <<>>, count, "done"))

\* assign(first, last)
AssignRange(values) ==
    /\ vfault = "none"
    /\ vlast.n < MaxVectorOps
    /\ Applied(assign(ThisVec, values), values,
               VOp("assign", 0, values, Len(values), "done"))

\* assign(n, value)
AssignFill(n, value) ==
    /\ vfault = "none"
    /\ vlast.n < MaxVectorOps
    /\ Applied(assign_fill(ThisVec, n, value), [j \in 1..n |-> value],
               VOp("assign_fill", n, <<value>>, n, "done"))

\* push_back(value)
PushBack(value) ==
    /\ vfault = "none"
    /\ vlast.n < MaxVectorOps
    /\ m_size < MaxVectorSize
    /\ Applied(emplace_back(ThisVec, value), Append(model, value),
               VOp("push_back", m_size, <<value>>, m_size + 1, "done"))

\* pop_back(), on a Vector that is not empty
PopBack ==
    /\ vfault = "none"
    /\ vlast.n < MaxVectorOps
    /\ m_size > 0
    /\ Applied(destroy_last_n_elements(ThisVec, 1),
               SubSeq(model, 1, Len(model) - 1),
               VOp("pop_back", 0, <<>>, m_size - 1, "done"))

\* insert(begin() + offset, value)
Insert(offset, value) ==
    /\ vfault = "none"
    /\ vlast.n < MaxVectorOps
    /\ offset < m_size
    /\ m_size < MaxVectorSize
    /\ \E r \in {insert(ThisVec, offset, value)} :
           Applied(r.vec, ModelInsert(offset, <<value>>),
                   VOp("insert", offset, <<value>>, r.ret, "done"))

\* insert(begin() + offset, first, last)
InsertRange(offset, values) ==
    /\ vfault = "none"
    /\ vlast.n < MaxVectorOps
    /\ offset < m_size
    /\ m_size + Len(values) <= MaxVectorSize
    /\ Applied(insert_range(ThisVec, offset, values),
               ModelInsert(offset, values),
               VOp("insert_range", offset, values, m_size + Len(values),
                   "done"))

\* erase(begin() + offset)
EraseAt(offset) ==
    /\ vfault = "none"
    /\ vlast.n < MaxVectorOps
    /\ offset < m_size
    /\ Applied(erase(ThisVec, offset), ModelErase(offset, offset + 1),
               VOp("erase", offset, <<>>, offset, "done"))

\* erase(begin() + offset, begin() + offset + length)
EraseRange(offset, length) ==
    /\ vfault = "none"
    /\ vlast.n < MaxVectorOps
    /\ offset + length < m_size
    /\ Applied(erase_range(ThisVec, offset, offset + length),
               ModelErase(offset, offset + length),
               VOp("erase_range", offset, <<length>>, offset, "done"))

\* clear()
Clear ==
    /\ vfault = "none"
    /\ vlast.n < MaxVectorOps
    /\ Applied(clear(ThisVec), <<>>, VOp("clear", 0, <<>>, 0, "done"))

\* resize(count) with count > size(); std::vector value-initializes the
\* new elements
ResizeGrow(count) ==
    /\ vfault = "none"
    /\ vlast.n < MaxVectorOps
    /\ count > m_size
    /\ Applied(resize(ThisVec, count),
               model \o [j \in 1..(count - m_size) |-> 0],
               VOp("resize", count, <<>>, count, "done"))

\* at(t): throws, or returns (*this)[t], whose assertion stops the program
\* unless the build has none
At(t) ==
    /\ vfault = "none"
    /\ vlast.n < MaxVectorOps
    /\ IF at_Throws(m_size, t)
       THEN /\ vlast' = VOp("at", t, <<>>, t, "out_of_range")
            /\ UNCHANGED vfault
       ELSE \E ndebug \in BOOLEAN :
               IF t < m_size \/ ndebug
               THEN /\ vlast' = VOp("at", t, <<CellAt(ThisVec, t)>>, t, "value")
                    /\ UNCHANGED vfault
               ELSE /\ vlast' = VOp("at", t, <<>>, t, "assert")
                    /\ vfault' = "assert"
    /\ UNCHANGED <<storage, m_size, m_is_small, model>>
    /\ UNCHANGED <<pvars, uvars, avars, gvars, fvars, rvars>>

\* the commands of the property test of Vector<int>
VectorNext ==
    \/ \E count \in 0..MaxVectorSize : ResizeShrink(count)
    \/ \E values \in RangeInputs : AssignRange(values)
    \/ \E n \in 0..MaxVectorSize, value \in ElemValues : AssignFill(n, value)
    \/ \E value \in ElemValues : PushBack(value)
    \/ PopBack
    \/ \E offset \in 0..MaxVectorSize, value \in ElemValues :
           Insert(offset, value)
    \/ \E offset \in 0..MaxVectorSize, values \in RangeInputs :
           InsertRange(offset, values)
    \/ \E offset \in 0..MaxVectorSize : EraseAt(offset)
    \/ \E offset \in 0..MaxVectorSize, length \in 0..MaxVectorSize :
           EraseRange(offset, length)
    \/ Clear

\* every operation modelled
VectorFullNext ==
    \/ VectorNext
    \/ \E count \in 1..MaxVectorSize : ResizeGrow(count)
    \/ \E t \in 0..MaxVectorSize : At(t)
-----------------------------------------------------------------------------
(* The specifications.  Each one runs one component; the variables of the   *)
(* other components keep their idle values.                                 *)

PromiseIdle ==
    /\ data = [l \in Loc |-> FreeData]
    /\ stack = <<>>
    /\ fault = "none"
    /\ nEval = 0
    /\ nWarn = 0
    /\ last = NoCall
    /\ first = NoFirst
    /\ prvalue_set = FALSE
    /\ shared = FALSE

UnionIdle ==
    /\ m_bits = ZeroWord
    /\ test_bits = ZeroWord
    /\ ulast = UOp("none", 0, 0, ZeroWord, FALSE)
    /\ ufault = "none"

ArgListIdle ==
    /\ args = <<>>
    /\ m_status = "RAW"
    /\ dots = Binding("unbound", <<>>)
    /\ call = <<>>
    /\ alast = NoAOp
    /\ afault = "none"

ArgumentIdle ==
    /\ arguments = [a \in ArgumentSlots |-> NoArgument]
    /\ promises = <<>>
    /\ glast = NoGOp
    /\ gfault = "none"

\* the idle values of the components other than the three first ones
FrameIdle ==
    /\ newframe = EmptyFrame
    /\ flast = NoFOp

ProxyIdle ==
    /\ r_bits = ZeroWord
    /\ rlast = ROp("none", ZeroWord, 0)

VectorIdle ==
    /\ storage = <<>>
    /\ m_size = 0
    /\ m_is_small = TRUE
    /\ model = <<>>
    /\ vlast = [op |-> "none"]
    /\ vfault = "none"

OthersIdle == ArgumentIdle /\ FrameIdle /\ ProxyIdle /\ VectorIdle

PromiseSpecInit == PromiseInit /\ UnionIdle /\ ArgListIdle /\ OthersIdle
PromiseSpec == PromiseSpecInit /\ [][PromiseNext]_vars

UnionSpecInit == UnionInit /\ PromiseIdle /\ ArgListIdle /\ OthersIdle
UnionSpec == UnionSpecInit /\ [][UnionNext]_vars


ArgListSpecInit == ArgListInit /\ PromiseIdle /\ UnionIdle /\ OthersIdle
ArgListSpec == ArgListSpecInit /\ [][ArgListNext]_vars

ArgumentSpecInit ==
    /\ ArgumentInit /\ PromiseIdle /\ UnionIdle /\ ArgListIdle
    /\ FrameIdle /\ ProxyIdle /\ VectorIdle

FrameSpecInit ==
    /\ FrameInit /\ PromiseIdle /\ UnionIdle /\ ArgListIdle
    /\ ArgumentIdle /\ ProxyIdle /\ VectorIdle
FrameSpec == FrameSpecInit /\ [][FrameNext]_vars
ArgumentSpec == ArgumentSpecInit /\ [][ArgumentNext]_vars

ProxySpecInit ==
    /\ ProxyInit /\ PromiseIdle /\ UnionIdle /\ ArgListIdle
    /\ ArgumentIdle /\ FrameIdle /\ VectorIdle
ProxySpec == ProxySpecInit /\ [][ProxyNext]_vars

VectorSpecInit ==
    /\ VectorInit /\ PromiseIdle /\ UnionIdle /\ ArgListIdle
    /\ ArgumentIdle /\ FrameIdle /\ ProxyIdle
VectorSpec == VectorSpecInit /\ [][VectorNext]_vars

VectorFullSpec == VectorSpecInit /\ [][VectorFullNext]_vars

-----------------------------------------------------------------------------
(* Claims about PromiseData / Promise, checked under PromiseSpec. *)

\* C1: once the first evaluation of a promise's expression has completed
\* normally, every later evaluate()/force() call returns the value that
\* evaluation cached, and the expression has been evaluated exactly once
\* (SET_PRVALUE, which is no evaluate()/force() call, not intervening).
C1_ForcedOnce ==
    (first.how = "normal" /\ ~prvalue_set) =>
        /\ nEval = 1
        /\ last.op = "evaluate" =>
               /\ last.res = "value"
               /\ last.val = first.val
               /\ last.evals = 0

\* C1's case: the promise was forced, and a later evaluate() returned.
C1_Witness ==
    /\ first.how = "normal"
    /\ ~prvalue_set
    /\ last.op = "evaluate"
    /\ last.forced
    /\ last.val \in Values

C3_RecursiveEvaluateRaises ==
    (last.op = "evaluate" /\ last.in_progress /\ ~last.interrupted
        /\ ~prvalue_set) =>
        /\ last.res = "under_evaluation_error"
        /\ last.evals = 0
        /\ stack # <<>>

\* C3's case: a nested evaluate() was refused.
C3_Witness ==
    /\ last.op = "evaluate"
    /\ last.in_progress
    /\ ~last.interrupted
    /\ last.res = "under_evaluation_error"
    /\ nEval = 1


\* the PromiseData that carries the state of the promise the latest call
\* was made on
LastPromise == data[GetThis(last.loc)]

\* C13 (the claim as stated): when the evaluation of a promise's expression
\* throws, the promise is left interrupted and not forced; an evaluate() of
\* an interrupted promise warns, clears the mark and evaluates again, never
\* raising the under-evaluation error; and once an evaluate() has returned a
\* value the promise is forced and no longer interrupted.
C13_InterruptedThenRetried ==
    (~prvalue_set /\ last.op = "evaluate") =>
        /\ last.res = "exception" =>
              (LastPromise.m_interrupted /\ ~LastPromise.m_is_evaluated)
        /\ last.interrupted => last.res # "under_evaluation_error"
        /\ (last.interrupted /\ last.res = "began") =>
              (nWarn >= 1 /\ ~LastPromise.m_interrupted)
        /\ last.res = "value" =>
              (LastPromise.m_is_evaluated /\ ~LastPromise.m_interrupted)

\* the state of the promise location l stands for, in a given store
PromiseIn(store, l) ==
    IF store[l].m_is_pointer_to_promise /\ store[l].m_value.k = "promise"
    THEN store[store[l].m_value.i] ELSE store[l]

\* C14 (the claim as stated): once a promise is forced, no step of the
\* promise interface (evaluate, copy, asPromise, SET_PRVALUE) makes it
\* unforced, changes its cached value or gives it an environment again.
C14_ForcedIsFinal ==
    [][\A l \in Loc :
          (data[l].kind # "free" /\ PromiseIn(data, l).m_is_evaluated) =>
              /\ PromiseIn(data', l).m_is_evaluated
              /\ GetValue(PromiseIn(data', l)) = GetValue(PromiseIn(data, l))
              /\ GetEnvironment(PromiseIn(data', l)) = NullRef]_vars

\* C15 (the claim as stated): isMissingSymbol() returns true only when the
\* promise is unforced, its expression is a symbol, and either the symbol is
\* missing in the captured environment or a forcing or missing-check of the
\* same promise was in progress when it was called; called in any other
\* state, for a symbol that is not missing, it returns false.
C15_MissingSymbolOnlyWhen ==
    (last.op = "isMissingSymbol" /\ last.res = "true") =>
        /\ ~last.forced
        /\ last.valgen = "sym"
        /\ last.missing \/ last.in_progress

\* C37: the assertions !m_is_pointer_to_promise of PromiseData::evaluate()
\* and setEvaluatedValue() hold in every reachable state, also when the
\* PromiseData is materialised or copied while its inline evaluation is in
\* progress, and the result of a returned evaluation is the value of the
\* promise all copies share.
C37_AssertionsHold ==
    /\ ~(fault = "assert" /\ last.op \in {"evaluate", "SET_PRVALUE"})
    /\ (last.op = "evaluate" /\ last.res = "value" /\ last.val # UnboundValue) =>
           /\ LastPromise.m_is_evaluated
           /\ LastPromise.m_value = last.val

\* Where C37 holds: an assertion of evaluate() fails only when the
\* PromiseData whose evaluation returns was turned into a pointer to a
\* Promise while the evaluation was in progress; in every other state the
\* value returned is the one recorded in the shared promise.
C37_AssertsOnlyIfMaterialisedInProgress ==
    /\ (fault = "assert" /\ last.op \in {"evaluate", "SET_PRVALUE"}) =>
           /\ last.op = "evaluate"
           /\ stack # <<>>
           /\ Top.op = "evaluate"
           /\ data[Top.this].m_is_pointer_to_promise
    /\ (last.op = "evaluate" /\ last.res = "value" /\ last.val # UnboundValue) =>
           /\ LastPromise.m_is_evaluated
           /\ LastPromise.m_value = last.val
-----------------------------------------------------------------------------
(* Claims about DiscriminatedUnion, checked under UnionSpec. *)

\* C6: after setInteger(T, V), for every 16-bit tag T and every 32-bit
\* signed value V (negative ones included), isInteger(T) is true,
\* getInteger(T) returns V, and isInteger(T2) is false for every other tag T2.
C6_IntegerRoundTrip ==
    ulast.op = "setInteger" =>
        /\ isInteger(m_bits, ulast.tag)
        /\ getInteger(m_bits) = ulast.ival
        /\ \A t2 \in TagInputs \ {ulast.tag} : ~isInteger(m_bits, t2)

\* C7: for every double d with isStorableDoubleValue(d) (+0.0, +Inf, -Inf
\* and the NaN payloads are such doubles), setDouble(d) followed by
\* getDouble() returns the identical 64 bits, and isDouble() holds.
C7_DoubleRoundTrip ==
    /\ \A d \in {PosZero, PosInf, NegInf, QuietNaN} \cup NaNPayloads :
           isStorableDoubleValue(d)
    /\ ulast.op = "setDouble" =>
           /\ isStorableDoubleValue(ulast.word)
           /\ isDouble(m_bits)
           /\ getDouble(m_bits) = ulast.word

\* C7's case: a NaN with a payload was stored.
C7_Witness ==
    /\ ulast.op = "setDouble"
    /\ ulast.word \in NaNPayloads
    /\ isDouble(m_bits)

\* isInteger(T) holds for some 16-bit tag T: T can only be the number held
\* in bits 32..47 of the word.
TagField(w) == SumBits(Shr(BitAnd(w, W4(0, 65535, 0, 0)), 32), 15)
IsSomeInteger(w) == isInteger(w, TagField(w))

Interpretations(w) ==
    (IF isPointer1(w) THEN 1 ELSE 0) + (IF isPointer2(w) THEN 1 ELSE 0)
    + (IF isDouble(w) THEN 1 ELSE 0) + (IF IsSomeInteger(w) THEN 1 ELSE 0)

Stored ==
    ulast.op \in {"setPointer1", "setPointer2", "setInteger", "setDouble",
                 "writeInteger"}

\* The words a DiscriminatedUnion holds: m_value once a word was stored, and
\* the word the test_value of isStorableDoubleValue() held last.
HeldWords == (IF Stored THEN {m_bits} ELSE {}) \cup {test_bits}

\* C8 as stated: for every 64-bit word a DiscriminatedUnion holds, exactly
\* one of isPointer1(), isPointer2(), isDouble() and "isInteger(T) for some
\* tag T" holds, and a stored double is never reported as a pointer.
C8_ExactlyOneInterpretation ==
    /\ \A w \in HeldWords : Interpretations(w) = 1
    /\ ulast.op = "setDouble" => ~isEitherPointer(m_bits)

\* C8 as amended: at most one of the four holds for every word a
\* DiscriminatedUnion holds, exactly one holds for every word stored by
\* setPointer1, setPointer2, setInteger or setDouble (or written through
\* getInteger's reference), and a stored double is never reported as a
\* pointer.
C8_AtMostOneInterpretation ==
    /\ \A w \in HeldWords : Interpretations(w) <= 1
    /\ \A w \in HeldWords, t \in TagInputs : isInteger(w, t) => t = TagField(w)
    /\ Stored => Interpretations(m_bits) = 1
    /\ ulast.op = "setDouble" =>
           (isDouble(m_bits) /\ ~isEitherPointer(m_bits))

\* C8's case: an infinity was stored and has one interpretation, while a
\* word of storage type INTEGER that no setInteger() produces has none.
C8_Witness ==
    /\ Stored
    /\ ulast.op = "setDouble"
    /\ ulast.word \in {PosInf, NegInf}
    /\ Interpretations(m_bits) = 1
    /\ getStorageType(test_bits) = "INTEGER"
    /\ Interpretations(test_bits) = 0

\* C27: for every 8-byte-aligned address p (any upper address bits) and
\* flag f, after setPointer1(p, f) isPointer1() holds and getPointer1()
\* returns (p, f); after setPointer2(p) isPointer2() holds and getPointer2()
\* returns p; setPointer1(null, false) stores the null variant, for which
\* isPointer1() holds, isNonNullPointer1() does not and getPointer1() is
\* (null, false).
C27_PointerRoundTrip ==
    /\ ulast.op = "setPointer1" =>
           /\ isPointer1(m_bits)
           /\ getPointer1(m_bits) = <<ulast.word, ulast.flag>>
           /\ (ulast.word = ZeroWord /\ ~ulast.flag) =>
                  (isPointer1Null(m_bits) /\ ~isNonNullPointer1(m_bits))
    /\ ulast.op = "setPointer2" =>
           /\ isPointer2(m_bits)
           /\ getPointer2(m_bits) = ulast.word

\* the addresses in which bit 63 is clear
LowHalf(p) == p[63] = 0

\* C27 for the addresses in which bit 63 is clear (not a claim of its own:
\* it locates the divergence).
C27_RoundTripBelowBit63 ==
    /\ (ulast.op = "setPointer1" /\ LowHalf(ulast.word)) =>
           /\ isPointer1(m_bits)
           /\ getPointer1(m_bits) = <<ulast.word, ulast.flag>>
           /\ (ulast.word = ZeroWord /\ ~ulast.flag) =>
                  (isPointer1Null(m_bits) /\ ~isNonNullPointer1(m_bits))
    /\ (ulast.op = "setPointer2" /\ LowHalf(ulast.word)) =>
           /\ isPointer2(m_bits)
           /\ getPointer2(m_bits) = ulast.word

\* what isStorableDoubleValue(d) returned for the double d it was asked
\* about last (the word its test_value holds)
Storable == isDouble(test_bits)

\* C28: isStorableDoubleValue returns false for the smallest positive
\* normal double and for its negation, and true for sqrt(minNormal),
\* maxNormal, their negations, +0.0, +Inf, -Inf and the quiet NaN.
C28_StorableTestValues ==
    /\ test_bits \in {MinNormal, Negate(MinNormal)} => ~Storable
    /\ test_bits \in {SqrtMinNormal, Negate(SqrtMinNormal), MaxNormal,
                      Negate(MaxNormal), PosZero, PosInf, NegInf, QuietNaN}
           => Storable

\* C28's case: isStorableDoubleValue was asked about the negation of the
\* smallest positive normal double and returned false.
C28_Witness ==
    /\ test_bits = Negate(MinNormal)
    /\ ~Storable

\* the biased exponent of a double (bits 52..62)
Exponent(d) == SumBits(Shr(BitAnd(d, W4(32752, 0, 0, 0)), 52), 10)

\* The biased exponent of sqrt(minNormal) = 2^-511 is 512, that of 2^513 is
\* 1536 and that of 2^897 is 1920.

\* C29 as stated: the doubles for which isStorableDoubleValue returns
\* false are only those of very small magnitude: every double whose
\* magnitude is at least sqrt(minNormal), the infinities and the NaNs
\* included, is storable.
C29_OnlySmallUnstorable ==
    Exponent(test_bits) >= 512 => Storable

\* C29 as amended: isStorableDoubleValue returns false exactly for the
\* non-zero doubles of magnitude below sqrt(minNormal) = 2^-511 (-0.0
\* included) and for the doubles of magnitude from 2^513 up to, but not
\* including, 2^897; +0.0, every other double, the infinities and every
\* NaN are storable.
C29_SmallAndLargeUnstorable ==
    Storable <=>
        \/ test_bits = PosZero
        \/ Exponent(test_bits) >= 512
           /\ Exponent(test_bits) < 1536
        \/ Exponent(test_bits) >= 1920

\* C29's case: isStorableDoubleValue was asked about the largest double
\* below 2^897 and returned false.
C29_Witness ==
    /\ test_bits = W4(30719, 65535, 65535, 65535)
    /\ Exponent(test_bits) = 1919
    /\ ~Storable


-----------------------------------------------------------------------------
(* Claims about ArgList, checked under ArgListSpec. *)

DotsError == "'...' used in an incorrect context"

\* C4 (the claim as stated): evaluate() on a list whose status is already
\* EVALUATED ends with an error and is never accepted silently.
C4_EvaluateOnEvaluatedRejected ==
    (alast.op = "evaluate" /\ alast.pre_status = "EVALUATED") =>
        alast.res = "error"

\* the tags of a list, in order
Tags(list) == [i \in 1..Len(list) |-> list[i].m_tag]

\* how many of the first i tags equal the i-th
TagRank(tags, i) == Cardinality({h \in 1..i : tags[h] = tags[i]})

\* extra x is the one the existing argument i takes: same (non-null) tag,
\* and x is as far among the extras of that tag as i among the arguments
Takes(pre, extras, i, x) ==
    /\ pre[i].m_tag # NoTag
    /\ extras[x].tag = pre[i].m_tag
    /\ TagRank([h \in 1..Len(extras) |-> extras[h].tag], x) = TagRank(Tags(pre), i)

\* C5: after merge(extras) on a PROMISED list every existing argument keeps
\* its position and tag; a tagged one takes the value of the first unused
\* extra of the same tag and the others are untouched; the extras not taken,
\* untagged ones included, follow at the end in their original order; the
\* status stays PROMISED; and [a=1, b=2] merged with [b=20, c=3] gives
\* [a=1, b=20, c=3].
C5_MergeOverridesAndAppends ==
    (alast.op = "merge" /\ alast.pre_status = "PROMISED") =>
        LET pre == alast.pre
            extras == alast.extraargs
            n == Len(pre)
            unused == {x \in 1..Len(extras) :
                          ~\E i \in 1..n : Takes(pre, extras, i, x)}
        IN /\ alast.res = "ok"
           /\ m_status = "PROMISED"
           /\ Len(args) = n + Cardinality(unused)
           /\ \A i \in 1..n :
                 /\ args[i].m_tag = pre[i].m_tag
                 /\ IF \E x \in 1..Len(extras) : Takes(pre, extras, i, x)
                    THEN \E x \in 1..Len(extras) :
                            /\ Takes(pre, extras, i, x)
                            /\ ~args[i].m_is_promise_data
                            /\ args[i].m_value = extras[x].car
                    ELSE args[i] = pre[i]
           /\ \A x \in unused :
                 args[n + Cardinality({y \in unused : y <= x})]
                     = Argument(extras[x].tag, extras[x].car)
           /\ (/\ Tags(pre) = <<"a", "b">>
               /\ Value(pre[1]) = ValRef(1)
               /\ extras = <<Cell("b", ValRef(20)), Cell("c", ValRef(3))>>)
              => /\ Tags(args) = <<"a", "b", "c">>
                 /\ [i \in 1..3 |-> Value(args[i])]
                        = <<ValRef(1), ValRef(20), ValRef(3)>>

\* C5's case: [a=1, b=2] was merged with [b=20, c=3].
C5_Witness ==
    /\ alast.op = "merge"
    /\ alast.res = "ok"
    /\ Tags(alast.pre) = <<"a", "b">>
    /\ [i \in 1..2 |-> Value(alast.pre[i])] = <<ValRef(1), ValRef(2)>>
    /\ alast.extraargs = <<Cell("b", ValRef(20)), Cell("c", ValRef(3))>>
    /\ Len(args) = 3

\* the elements of a list that are not the '...' placeholder, in order
NonDots(list) == SelectSeq(list, LAMBDA a : Value(a) # DotsSymbol)

\* the expression an Argument stands for: the one it is a promise of, or
\* the value it holds
Origin(arg) ==
    IF arg.m_is_promise_data THEN arg.m_promise_data.m_valgen ELSE arg.m_value

\* evaluate() or wrapInPromises() was applied to a RAW list holding '...'
OnRawWithDots ==
    /\ alast.op \in {"evaluate", "wrapInPromises"}
    /\ alast.pre_status = "RAW"
    /\ has3Dots(alast.pre)

\* an expression evaluate() hands to the evaluator under the given policy
IsEvaluated(car, allow_missing) ==
    ~(car = MissingArgument \/ (allow_missing = "Keep" /\ car = MissingSymbol))

\* C9: with '...' bound to null or to the missing-argument sentinel,
\* evaluate() and wrapInPromises() on a RAW list raise no '...' error, and
\* when they complete the placeholders are gone: the length is the original
\* one minus the number of placeholders and the other arguments are there in
\* their order with their tags.
C9_NullDotsRemoved ==
    (OnRawWithDots /\ dots.k \in {"null", "missing"}) =>
        LET others == NonDots(alast.pre) IN
        /\ alast.err # DotsError
        /\ alast.res = "ok" =>
              /\ Len(others) < Len(alast.pre)
              /\ Len(args) = Len(others)
              /\ Tags(args) = Tags(others)
              /\ alast.op = "wrapInPromises" =>
                    /\ ~has3Dots(args)
                    /\ \A i \in 1..Len(args) : Origin(args[i]) = others[i].m_value
              /\ alast.op = "evaluate" =>
                    /\ \A i \in 1..Len(args) :
                          Value(args[i]) =
                              EvaluateSingleArgument(others[i].m_value,
                                                     alast.allow_missing).val
                    /\ alast.ev = SelectSeq([i \in 1..Len(others) |-> others[i].m_value],
                                         LAMBDA c : IsEvaluated(c, alast.allow_missing))

\* C9's case: a RAW list with two placeholders came out of the operation
\* with the one other argument left.
C9_Witness ==
    /\ OnRawWithDots
    /\ dots.k \in {"null", "missing"}
    /\ alast.res = "ok"
    /\ Len(alast.pre) = 3
    /\ Len(args) = 1

\* C10 (the claim as stated): with '...' unbound in env, evaluate() and
\* wrapInPromises() on a RAW list holding the placeholder raise no error
\* about '...' and, when they complete, have discarded the placeholder.
C10_UnboundDotsDiscarded ==
    (OnRawWithDots /\ dots.k = "unbound") =>
        /\ alast.err # DotsError
        /\ alast.res = "ok" => Len(args) = Len(NonDots(alast.pre))

\* the (tag, expression) cells a RAW list stands for once every '...' is
\* replaced by the given cells
RECURSIVE Spliced(_, _, _)
Spliced(list, cells, i) ==
    IF i > Len(list) THEN <<>>
    ELSE (IF Value(list[i]) = DotsSymbol THEN cells
          ELSE <<Cell(list[i].m_tag, list[i].m_value)>>)
         \o Spliced(list, cells, i + 1)

\* C11: with '...' bound to a list of k cells, evaluate() and
\* wrapInPromises() on a RAW list, when they complete, leave every
\* placeholder replaced at its position by the k cells in their order with
\* their own tags, and the other arguments in their order with their tags.
C11_DotsSplicedInOrder ==
    (OnRawWithDots /\ dots.k = "dots" /\ alast.res = "ok") =>
        LET want == Spliced(alast.pre, dots.cells, 1) IN
        /\ Len(args) = Len(want)
        /\ Tags(args) = [i \in 1..Len(want) |-> want[i].tag]
        /\ alast.op = "wrapInPromises" =>
              \A i \in 1..Len(args) : Origin(args[i]) = want[i].car
        /\ alast.op = "evaluate" =>
              alast.ev = SelectSeq([i \in 1..Len(want) |-> want[i].car],
                                   LAMBDA c : IsEvaluated(c, alast.allow_missing))

\* C11's case: [a=1, ..., b=x] with '...' bound to two cells (one tagged c)
\* came out with four elements.
C11_Witness ==
    /\ OnRawWithDots
    /\ dots.k = "dots"
    /\ alast.res = "ok"
    /\ Len(dots.cells) = 2
    /\ Tags(alast.pre) = <<"a", NoTag, "b">>
    /\ Tags(args) = <<"a", "c", NoTag, "b">>

\* s is a prefix of t
IsPrefix(s, t) == Len(s) <= Len(t) /\ s = SubSeq(t, 1, Len(s))

\* the argument expressions of a RAW list, those of '...' spliced in
ArgumentExpressions(list) ==
    LET want == Spliced(list, IF dots.k = "dots" THEN dots.cells ELSE <<>>, 1)
    IN [i \in 1..Len(want) |-> want[i].car]

\* C12: a strict builtin call on a RAW list evaluates the argument
\* expressions, those spliced in from '...' included, from left to right,
\* each at most once and none out of turn; when the builtin is invoked, on
\* the fixed-arity path or after ArgList::evaluate(), each was evaluated
\* exactly once.
C12_EagerLeftToRightOnce ==
    (/\ alast.op = "evaluateDirectBuiltInCall"
     /\ alast.pre_status = "RAW"
     /\ alast.res # "no return") =>
        /\ IsPrefix(alast.ev, ArgumentExpressions(alast.pre))
        /\ alast.res \in {"invoke", "invokeFixedArity"} =>
              alast.ev = ArgumentExpressions(alast.pre)

\* C12's case: [a=1, ..., b=x] with two cells bound to '...' was evaluated
\* and the fixed-arity builtin invoked with the four values.
C12_Witness ==
    /\ alast.op = "evaluateDirectBuiltInCall"
    /\ alast.pre_status = "RAW"
    /\ alast.res = "invokeFixedArity"
    /\ has3Dots(alast.pre)
    /\ alast.ev = <<ValRef(1), ValRef(3), BoundSymbol, BoundSymbol>>

\* an Argument holding an unforced promise keyed to env
IsUnforcedPromise(arg) ==
    /\ arg.m_is_promise_data
    /\ ~arg.m_promise_data.m_is_evaluated
    /\ arg.m_promise_data.m_value = EnvRef

\* C16: wrapInPromises(env) on a RAW list evaluates no argument expression
\* and, when it completes, has set the status to PROMISED, left the elements
\* equal to the missing-argument sentinel unwrapped and wrapped every other
\* element in an unforced promise keyed to env.
C16_RawWrappedUnforced ==
    (alast.op = "wrapInPromises" /\ alast.pre_status = "RAW") =>
        /\ alast.ev = <<>>
        /\ alast.res = "ok" =>
              /\ m_status = "PROMISED"
              /\ \A i \in 1..Len(args) :
                    IF Origin(args[i]) = MissingArgument
                    THEN ~args[i].m_is_promise_data
                    ELSE IsUnforcedPromise(args[i])

\* C16's case: [<missing>, 1] was wrapped: the sentinel is still there
\* unwrapped and the other element is a promise.
C16_Witness ==
    /\ alast.op = "wrapInPromises"
    /\ alast.pre_status = "RAW"
    /\ alast.res = "ok"
    /\ Len(args) = 2
    /\ args[1] = Argument(NoTag, MissingArgument)
    /\ IsUnforcedPromise(args[2])
    /\ Origin(args[2]) = ValRef(1)

\* the raw argument cells of the call once '...' is expanded
CallCells ==
    Spliced(ArgListOf(call), IF dots.k = "dots" THEN dots.cells ELSE <<>>, 1)

\* wrapInPromises(env, call) was applied to an EVALUATED list, '...' being
\* expandable in env
OnEvaluatedWithCall ==
    /\ alast.op = "wrapInPromises"
    /\ alast.pre_status = "EVALUATED"
    /\ getDottedArgs(dots).err = "none" \/ ~has3Dots(ArgListOf(call))

\* C17 (the claim as stated): wrapInPromises(env, call) on an EVALUATED list
\* whose length is the call's raw arity completes with status PROMISED and
\* the i-th element a forced promise of the i-th raw expression holding the
\* i-th value; with any other length it raises 'dispatch error'; and it
\* never indexes the evaluated list out of range.
C17_EvaluatedPairedWithCall ==
    OnEvaluatedWithCall =>
        /\ alast.res # "abort"
        /\ Len(alast.pre) # Len(CallCells) => alast.err = "dispatch error"
        /\ Len(alast.pre) = Len(CallCells) =>
              /\ alast.res = "ok"
              /\ m_status = "PROMISED"
              /\ Len(args) = Len(CallCells)
              /\ \A i \in 1..Len(args) :
                    /\ args[i].m_is_promise_data
                    /\ args[i].m_promise_data =
                           PData(CallCells[i].car, TRUE, Value(alast.pre[i]))

\* evaluate() was applied to a list that is not EVALUATED
OnEvaluate == alast.op = "evaluate" /\ alast.pre_status # "EVALUATED"

\* the list the latest operation was applied to has no '...' to expand, or
\* '...' is bound in env to something that expands
Expandable ==
    \/ alast.pre_status # "RAW"
    \/ ~has3Dots(alast.pre)
    \/ getDottedArgs(dots).err = "none"

\* the elements of the list evaluate() was applied to that are not the
\* placeholder and hold the missing-argument sentinel
OwnSentinels ==
    {i \in 1..Len(alast.pre) : Value(alast.pre[i]) = MissingArgument}

\* the 1-based position of element i of that list once every '...' before
\* it is expanded
PositionAfterExpansion(i) ==
    LET k == IF dots.k = "dots" THEN Len(dots.cells) ELSE 0
        before == {j \in 1..(i - 1) : Value(alast.pre[j]) = DotsSymbol}
    IN  IF alast.pre_status = "RAW"
        THEN i + Cardinality(before) * (k - 1)
        ELSE i

\* C18: in evaluate() of a list whose '...' (if any) expands, for the
\* elements of the list that hold the missing-argument sentinel: under Keep nothing is evaluated for them and,
\* when evaluate() completes, each is still the sentinel with its tag;
\* under Error evaluate() raises an error, which is 'argument N is empty'
\* with N the position after expansion of the first of them unless another
\* error was raised at an earlier position.
C18_MissingKeptOrRejected ==
    (OnEvaluate /\ Expandable /\ OwnSentinels # {}) =>
        LET f == CHOOSE i \in OwnSentinels : \A j \in OwnSentinels : i <= j
        IN
        /\ alast.allow_missing = "Keep" =>
              /\ \A n \in 1..Len(alast.ev) : alast.ev[n] # MissingArgument
              /\ alast.res = "ok" =>
                    \A i \in OwnSentinels :
                        args[PositionAfterExpansion(i)] =
                            Argument(alast.pre[i].m_tag, MissingArgument)
        /\ alast.allow_missing = "Error" =>
              /\ alast.res = "error"
              /\ \/ alast.at < PositionAfterExpansion(f)
                 \/ /\ alast.err = "argument is empty"
                    /\ alast.at = PositionAfterExpansion(f)

\* C18's case: [..., m=<missing>] with '...' bound to two cells was
\* evaluated under Error, which raised 'argument 3 is empty'.
C18_Witness ==
    /\ OnEvaluate
    /\ alast.allow_missing = "Error"
    /\ has3Dots(alast.pre)
    /\ Len(dots.cells) = 2
    /\ OwnSentinels = {2}
    /\ alast.err = "argument is empty"
    /\ alast.at = 3

\* C19 (the claim as stated): in evaluate() of a RAW list, the cells of the
\* '...' list holding the missing-argument sentinel raise no 'argument N is
\* empty' error, whatever the policy, and are in the resulting list as the
\* sentinel.
C19_SplicedMissingCarried ==
    (OnEvaluate /\ OnRawWithDots /\ dots.k = "dots") =>
        \A i \in 1..Len(alast.pre), j \in 1..Len(dots.cells) :
            (Value(alast.pre[i]) = DotsSymbol /\ dots.cells[j].car = MissingArgument)
            => LET n == PositionAfterExpansion(i) + j - 1 IN
               /\ ~(alast.err = "argument is empty" /\ alast.at = n)
               /\ alast.res = "ok" =>
                     args[n] = Argument(dots.cells[j].tag, MissingArgument)

\* what an Argument holds besides its tag
Untagged(arg) ==
    [m_is_promise_data |-> arg.m_is_promise_data, m_value |-> arg.m_value,
     m_promise_data |-> arg.m_promise_data]

\* C20: after stripTags(), in any status, no argument has a tag (hasTags()
\* is false), and the status, the length, the order and every argument's
\* value or promise are what they were.
C20_StripTagsOnlyClearsTags ==
    alast.op = "stripTags" =>
        /\ ~hasTags(args)
        /\ m_status = alast.pre_status
        /\ Len(args) = Len(alast.pre)
        /\ \A i \in 1..Len(args) : Untagged(args[i]) = Untagged(alast.pre[i])

\* C20's case: a PROMISED list of promises with tags on both elements was
\* stripped.
C20_Witness ==
    /\ alast.op = "stripTags"
    /\ alast.pre_status = "PROMISED"
    /\ Tags(alast.pre) = <<"a", "b">>
    /\ \A i \in 1..2 : IsUnforcedPromise(args[i])
    /\ ~hasTags(args)

\* C21: merge() on a list whose status is RAW or EVALUATED raises the
\* internal error and leaves the elements, their tags, the length and the
\* status as they were.
C21_MergeRejectedUnlessPromised ==
    (alast.op = "merge" /\ alast.pre_status \in {"RAW", "EVALUATED"}) =>
        /\ alast.res = "error"
        /\ alast.err = "Internal error: ArgList::merge() requires PROMISED ArgList"
        /\ args = alast.pre
        /\ m_status = alast.pre_status

\* C21's case: merge() was refused on the EVALUATED list of two tagged
\* values, with extraargs that would have overridden one of them.
C21_Witness ==
    /\ alast.op = "merge"
    /\ alast.pre_status = "EVALUATED"
    /\ alast.res = "error"
    /\ Tags(args) = <<"a", "b">>
    /\ alast.extraargs = <<Cell("b", ValRef(20)), Cell("c", ValRef(3))>>

\* C22 (the claim as stated): wrapInPromises() on a list whose status is
\* already PROMISED raises an error.
C22_WrapOnPromisedRejected ==
    (alast.op = "wrapInPromises" /\ alast.pre_status = "PROMISED") =>
        alast.res \in {"error", "abort"}

\* what an Argument stands for, whatever its representation: the object
\* value() returns, a Promise being identified by its expression (forcing a
\* Promise changes the Promise, not which Promise the Argument holds)
Logical(arg) ==
    LET v == Value(arg)
    IN  IF v.k = "promise" THEN [k |-> "promise", valgen |-> v.d.m_valgen]
        ELSE v

\* C23: evaluateToArray() leaves the status, the length, the order, the
\* tags and what each argument stands for as they were; on an EVALUATED
\* list it completes, has written the stored values in list order and has
\* evaluated nothing.
C23_ToArrayLeavesList ==
    alast.op = "evaluateToArray" =>
        /\ m_status = alast.pre_status
        /\ Len(args) = Len(alast.pre)
        /\ Tags(args) = Tags(alast.pre)
        /\ \A i \in 1..Len(args) : Logical(args[i]) = Logical(alast.pre[i])
        /\ alast.pre_status = "EVALUATED" =>
              (alast.res = "abort" \/
                  /\ alast.res = "ok"
                  /\ alast.ev = <<>>
                  /\ alast.written =
                         [i \in 1..Len(alast.pre) |-> Value(alast.pre[i])])

\* C23's case: evaluateToArray() has forced the two promises of a PROMISED
\* list into the buffer, the list still holding the two promises.
C23_Witness ==
    /\ alast.op = "evaluateToArray"
    /\ alast.pre_status = "PROMISED"
    /\ alast.res = "ok"
    /\ Len(alast.pre) = 2
    /\ \A i \in 1..2 : IsUnforcedPromise(alast.pre[i])
    /\ alast.written = <<ValRef(1), ValRef(2)>>
    /\ Tags(args) = <<"a", "b">>

\* C24 (the claim as stated): evaluateToArray() writes no result at a
\* buffer index of num_args or more, and when it completes it has written
\* exactly one result per element of the list, '...' included, which is
\* num_args results.
C24_ToArrayWritesNumArgs ==
    alast.op = "evaluateToArray" =>
        /\ alast.num_args = Len(alast.pre)
        /\ Len(alast.written) <= alast.num_args
        /\ alast.res = "ok" => Len(alast.written) = Len(alast.pre)

\* an Argument that holds an evaluated value: no promise data, and a value
\* that is no expression left to evaluate (the missing-argument sentinel is
\* what policy Keep evaluates a missing argument to, the symbol '...' what
\* quote(...) evaluates to)
HoldsEvaluatedValue(arg) ==
    /\ ~arg.m_is_promise_data
    /\ arg.m_value.k = "sym" => arg.m_value \in {MissingArgument, DotsSymbol}
    /\ arg.m_value.k \notin {"promise", "lang"}

\* the expressions evaluate() has to evaluate on the list it was applied to
ToEvaluate ==
    IF alast.pre_status = "RAW" THEN ArgumentExpressions(alast.pre)
    ELSE [i \in 1..Len(alast.pre) |-> Value(alast.pre[i])]

\* C33: evaluate() on a list that is not EVALUATED sets the status to
\* EVALUATED exactly when it returns normally; when an element raises an
\* error the status is the one before the call; and in every state a list
\* with status EVALUATED holds an evaluated value in every element.
C33_EvaluatedOnlyOnReturn ==
    /\ OnEvaluate =>
          /\ m_status = "EVALUATED" <=> alast.res = "ok"
          /\ alast.res = "error" => m_status = alast.pre_status
          /\ alast.res = "ok" =>
                /\ Len(args) = Len(ToEvaluate)
                /\ \A i \in 1..Len(args) :
                      Value(args[i]) =
                          EvaluateSingleArgument(ToEvaluate[i],
                                                 alast.allow_missing).val
    /\ m_status = "EVALUATED" => \A i \in 1..Len(args) : HoldsEvaluatedValue(args[i])

\* C33's case: evaluate() on the RAW list [1, <unbound>, ...] raised the
\* evaluation error at its second element: the first element was evaluated
\* and the status is still RAW.
C33_Witness ==
    /\ alast.op = "evaluate"
    /\ alast.pre_status = "RAW"
    /\ alast.res = "error"
    /\ alast.at = 2
    /\ m_status = "RAW"
    /\ Len(alast.ev) > 0


\* C38: evaluateDirectBuiltInCall() terminates for every argument list,
\* whatever values the arguments evaluate to: after the expansion of '...'
\* the recursive call on the evaluated copy goes on to the argument-count
\* check and the invocation without recursing again.
C38_DirectCallReturns ==
    alast.op = "evaluateDirectBuiltInCall" => alast.res # "no return"

\* an argument of the call has the symbol '...' as its value: it was
\* evaluated to it before the call, or the call evaluated quote(...)
ValueIsDots ==
    \/ alast.pre_status = "EVALUATED" /\ has3Dots(alast.pre)
    \/ \E i \in 1..Len(alast.ev) : alast.ev[i] = QuotedDots

\* Where C38 holds: the call returns (with an invocation or an error)
\* whenever no argument has the symbol '...' as its value.
C38_ReturnsUnlessValueIsDots ==
    (alast.op = "evaluateDirectBuiltInCall" /\ ~ValueIsDots)
        => alast.res \in {"invoke", "invokeFixedArity", "error"}

-----------------------------------------------------------------------------
(* Claims about Argument, checked under ArgumentSpec. *)

\* C25 (the claim as stated): in every state of every Argument, while
\* m_is_promise_data is true the value edge is null, and while it is false
\* the promise payload holds no referents.
C25_OneOfValueAndPayload ==
    \A a \in LiveArguments :
        IF arguments[a].m_is_promise_data
        THEN arguments[a].m_value = NullRef
        ELSE ~HoldsReferents(arguments[a].m_promise_data)
-----------------------------------------------------------------------------
(* Claims about Expression::importMethodBindings, checked under FrameSpec. *)

\* the method bindings were imported by the latest operation
Imported ==
    /\ flast.op \in {"invokeClosureImpl", "importMethodBindings"}
    /\ flast.method_bindings # NullFrame

\* C26: importMethodBindings() never replaces or modifies a binding that
\* already exists in the execution frame: every symbol bound before (by
\* argument matching) keeps its binding, and the frame gains a binding for
\* exactly the symbols of the method bindings that were not bound, equal
\* to the method binding.
C26_FirstWriterWins ==
    Imported =>
        \A sym \in SymbolSet :
            IF IsBound(flast.pre, sym)
            THEN newframe[sym] = flast.pre[sym]
            ELSE newframe[sym] = flast.method_bindings[sym]

\* C26's case: a closure was invoked with method bindings of which one
\* names a parameter bound by argument matching and another one a symbol
\* that was not bound, and the latter was imported.
C26_Witness ==
    /\ flast.op = "invokeClosureImpl"
    /\ flast.method_bindings # NullFrame
    /\ IsBound(flast.pre, "x")
    /\ IsBound(flast.method_bindings, "x")
    /\ ~IsBound(flast.pre, ".Generic")
    /\ IsBound(flast.method_bindings, ".Generic")
    /\ newframe[".Generic"] = flast.method_bindings[".Generic"]
    /\ newframe["x"] = flast.pre["x"]

-----------------------------------------------------------------------------
(* Claims about RObjectProxy, checked under ProxySpec. *)

\* how many variants the word claims to be: Null, a heap object, an
\* interned string, a scalar logical, a scalar integer or a scalar real
ClaimedVariants(w) ==
    (IF isNull(w) THEN 1 ELSE 0)
    + (IF isRObject(w) THEN 1 ELSE 0)
    + (IF RObjectProxy_getStorageType(w) = "SCALAR_STRING" THEN 1 ELSE 0)
    + (IF RObjectProxy_getStorageType(w) = "SCALAR_LOGICAL" THEN 1 ELSE 0)
    + (IF RObjectProxy_getStorageType(w) = "SCALAR_INTEGER" THEN 1 ELSE 0)
    + (IF RObjectProxy_getStorageType(w) = "SCALAR_REAL" \/ isRealZero(w)
       THEN 1 ELSE 0)

\* the RObjectProxy was constructed from a null pointer
FromNullPointer ==
    \/ rlast.kind = "default"
    \/ rlast.kind = "pointer" /\ rlast.word = ZeroWord

\* C30: an RObjectProxy never claims two variants at once, and Null is
\* distinct from the real 0.0: isNull() is true for a value constructed
\* from a null pointer (default construction included) and false for
\* every value constructed from a non-null heap-object pointer, an
\* interned string, a scalar logical, a scalar integer or a scalar real
\* (0.0 included).
C30_NullIsItsOwnVariant ==
    /\ ClaimedVariants(r_bits) <= 1
    /\ FromNullPointer => isNull(r_bits)
    /\ ~FromNullPointer => ~isNull(r_bits)

\* C30 without the null pointer and the scalar reals (not a claim of its
\* own: it locates the divergence): a value constructed from a non-null
\* heap-object pointer, an interned string, a scalar logical or a scalar
\* integer claims at most one variant and is not Null.
C30_NotNullButForReals ==
    (~FromNullPointer /\ rlast.kind # "real") =>
        /\ ClaimedVariants(r_bits) <= 1
        /\ ~isNull(r_bits)

\* the value is a scalar integer vector holding v: not Null, INTSXP, of
\* size 1, without attributes, element 0 is v
IsIntegerScalar(w, v) ==
    /\ ~isNull(w)
    /\ getSexpType(w) = "INTSXP"
    /\ size(w) = "1"
    /\ NoAttributes(w)
    /\ RObjectProxy_getStorageType(w) = "SCALAR_INTEGER"
    /\ GetLower32Bits(w) = v

\* C31: for every 32-bit int v (negative values included),
\* RValue<IntVector>::scalar(v) is a non-null value with sexptype INTSXP,
\* size 1, no attributes, element 0 equal to v and asScalarInteger() equal
\* to v; overwriting element 0 through INTEGER() keeps sexptype INTSXP and
\* size 1 and reads back the new value.
C31_ScalarInteger ==
    /\ rlast.kind = "integer" =>
           /\ IsIntegerScalar(r_bits, rlast.ival)
           /\ asScalarInteger(r_bits) = [kind |-> "int", value |-> rlast.ival]
    /\ rlast.kind = "writeInteger" => IsIntegerScalar(r_bits, rlast.ival)

\* C31 for the values constructed from a non-negative int, and every
\* element written to them afterwards, negative ones included (not a claim
\* of its own: it locates the divergence).
C31_ScalarOfNonNegative ==
    /\ (rlast.kind = "integer" /\ rlast.ival >= 0) =>
           /\ IsIntegerScalar(r_bits, rlast.ival)
           /\ asScalarInteger(r_bits) = [kind |-> "int", value |-> rlast.ival]
    /\ (rlast.kind = "writeInteger"
        /\ RObjectProxy_getStorageType(r_bits) = "SCALAR_INTEGER") =>
           IsIntegerScalar(r_bits, rlast.ival)


\* the value was built from a double as a scalar real
FromReal == rlast.kind = "real"

\* what a scalar real is to report: REALSXP, stored inline with storage type
\* SCALAR_REAL or boxed as a heap object (whose own type is REALSXP), and in
\* neither case Null
ReportsReal(w) ==
    /\ \/ RObjectProxy_getStorageType(w) = "SCALAR_REAL" /\ getSexpType(w) = "REALSXP"
       \/ isRObject(w) /\ getSexpType(w) = "heap object"
    /\ ~isNull(w)

\* C34: a value built from any double as a scalar real reports sexptype
\* REALSXP, stored inline as SCALAR_REAL or boxed as a heap real, and is never
\* classified as a string, an integer, a logical or Null.
C34_RealIsReal == FromReal => ReportsReal(r_bits)

\* The cases C34 fails for: negative zero (stored inline, and its sign bit is
\* the flag of a string), positive zero (stored inline as the all-zero word,
\* whose storage type is ROBJECT, and reported REALSXP by a special case) and
\* the reals whose flag bits are 0100, which isNull() takes for Null; every
\* other double is reported as a real.
C34_RealButZerosAndFlag4 ==
    (/\ FromReal
     /\ rlast.word \notin {PosZero, NegZero}
     /\ getFlagBits(rlast.word) # s_nil_tag)
        => ReportsReal(r_bits)
-----------------------------------------------------------------------------
(* Claims about Vector, checked under VectorSpec and VectorFullSpec. *)

\* the elements of the Vector, as operator[] reads them
Elements == Range(ThisVec, 0, m_size)

\* C32: starting from an empty Vector and an empty std::vector, after any
\* sequence of the operations shrinking resize, assign(range), assign(n,
\* value), push_back, pop_back, insert(pos, value), insert(pos, range),
\* erase(pos), erase(first, last) and clear applied to both, the two hold
\* the same element sequence (size(), operator[], front() and back()
\* agree), and insert and erase return an iterator at the same offset as
\* std::vector's.
C32_SameAsStdVector ==
    /\ vfault = "none"
    /\ m_size = Len(model)
    /\ Elements = Elems(model)
    /\ vlast.op \in {"insert", "erase", "erase_range"} =>
           vlast.ret = vlast.offset


\* insert(begin() + offset, value) was applied to a Vector of constructed
\* elements
OnInsert ==
    /\ vlast.op = "insert"
    /\ \A i \in 1..Len(vlast.pre) : vlast.pre[i].init

\* what insert(begin() + k, v) is to leave: s0..s(k-1), v, s(k)..s(n-1), the
\* iterator returned at offset k, and no store outside the storage
Inserted ==
    /\ vfault = "none"
    /\ m_size = Len(vlast.pre) + 1
    /\ Elements = SubSeq(vlast.pre, 1, vlast.offset) \o Elems(vlast.values)
                     \o SubSeq(vlast.pre, vlast.offset + 1, Len(vlast.pre))
    /\ vlast.ret = vlast.offset

\* C35: for a Vector holding s0..s(n-1) and an offset k < n,
\* insert(begin() + k, v) yields s0..s(k-1), v, s(k)..s(n-1) with size
\* n + 1, returns an iterator at offset k and writes no element at an index
\* at or beyond capacity().
C35_InsertShiftsTail == OnInsert => Inserted

\* Where C35 holds: an insert before the last element, the one case where
\* the number of elements moved equals the distance they move.
C35_InsertBeforeLast ==
    (OnInsert /\ vlast.offset = Len(vlast.pre) - 1) => Inserted

\* What the code does instead when k < n - 1 and the stores stay inside the
\* storage: the element at k is overwritten by v, and s(k)..s(n-1) are
\* copied behind the end, of which the first becomes the new last element.
C35_InsertOverwrites ==
    (OnInsert /\ vlast.offset < Len(vlast.pre) - 1 /\ vfault = "none") =>
        /\ m_size = Len(vlast.pre) + 1
        /\ Elements = SubSeq(vlast.pre, 1, vlast.offset) \o Elems(vlast.values)
                         \o SubSeq(vlast.pre, vlast.offset + 2, Len(vlast.pre))
                         \o <<vlast.pre[vlast.offset + 1]>>

\* C36: at(t) returns the element at index t when t < size() and throws
\* std::out_of_range when t >= size().
C36_AtChecksRange ==
    vlast.op = "at" =>
        IF vlast.offset < Len(vlast.pre)
        THEN /\ vlast.res = "value"
             /\ vlast.values = <<vlast.pre[vlast.offset + 1]>>
        ELSE vlast.res = "out_of_range"

\* What at(t) does: it throws exactly for the indices that have an element,
\* and for the others goes on to operator[], which stops on its assertion
\* or, in a build without assertions, reads behind the last element.
C36_AtThrowsForElements ==
    vlast.op = "at" =>
        IF vlast.offset < Len(vlast.pre)
        THEN vlast.res = "out_of_range"
        ELSE vlast.res \in {"assert", "value"}

\* resize(count) with count > size() was applied
OnResizeGrow == vlast.op = "resize" /\ vlast.offset > Len(vlast.pre)

\* C39: resize(count) with count > size() leaves the first size() elements
\* unchanged, sets size() to count, and default-constructs exactly the
\* count - size() new elements, at the indices size()..count-1, none of
\* them at or beyond capacity().
C39_ResizeConstructsNewOnly ==
    OnResizeGrow =>
        /\ vfault = "none"
        /\ m_size = vlast.offset
        /\ SubSeq(Elements, 1, Len(vlast.pre)) = vlast.pre
        /\ Constructed(Len(vlast.pre), vlast.offset)
               = Len(vlast.pre) .. (vlast.offset - 1)

\* Where C39 holds: on an empty Vector, where end() + i is the index i.
C39_ResizeOfEmpty ==
    (OnResizeGrow /\ vlast.pre = <<>>) =>
        /\ vfault = "none"
        /\ m_size = vlast.offset
        /\ Constructed(0, vlast.offset) = 0 .. (vlast.offset - 1)

\* What resize(count) does on a Vector with elements: it constructs count
\* elements from end() on; the elements it had and the size are as claimed
\* when the last index, size() + count - 1, is inside the storage.
C39_ResizeConstructsCount ==
    OnResizeGrow =>
        /\ Constructed(Len(vlast.pre), vlast.offset)
               = Len(vlast.pre) .. (Len(vlast.pre) + vlast.offset - 1)
        /\ vfault = "none" =>
              /\ m_size = vlast.offset
              /\ SubSeq(Elements, 1, Len(vlast.pre)) = vlast.pre
=============================================================================
